---- MODULE Spec2Model ----
(***************************************************************************)
(* A model of the after15 overtime attribution engine:                     *)
(*   schedule.rs  the cyclic shift calendar                                *)
(*   jsonl.rs     session reconstruction from timestamp records            *)
(*   overtime.rs  slicing of a session into per-day overtime               *)
(*   archive.rs   merge of day totals into the persisted ledger            *)
(*                                                                         *)
(* Representation.  A calendar date (chrono NaiveDate) is the number of    *)
(* days since 2025-01-01, an instant (NaiveDateTime) the number of seconds *)
(* since 2025-01-01 00:00:00.  Hours (f64 in the code) are held as whole   *)
(* seconds, i.e. hours * 3600, so sums and comparisons are exact.          *)
(* A date string "YYYY-MM-DD" is the triple <<Y, M, D>>, a month key       *)
(* "YYYY-MM" the pair <<Y, M>>.  An Option is a set with at most one       *)
(* element.  A HashMap is a function whose DOMAIN is the set of keys.      *)
(***************************************************************************)
EXTENDS Integers, Sequences, FiniteSets, TLC

VARIABLES
    \* ---- archive.rs: the persisted ledger and one archive run ----
    file,            \* content of daily_summary.json
    daily_hours,     \* argument of archive_overtime: date -> hours
    daily_projects,  \* argument of archive_overtime: date -> project -> split
    today,           \* Local::now().date_naive() of the run
    loaded,          \* what load_summary returned at the start of the run
    summary,         \* the in-memory ledger at the end of the run
    updated_count,   \* number of day entries the run wrote
    save_result,     \* "none" (not attempted), "ok" or "err"
    lastOp,          \* the run in memory: "none", "merge" or "replace"
    repeat,          \* TRUE when the run repeated the previous run's arguments
    prev,            \* the run before a repeated run: its ledger, file and save result
    \* ---- archive.rs: one archive run taken step by step ----
    tmp_file,        \* content of daily_summary.json.tmp
    proc,            \* per process: position, arguments and locals of the run
    file0,           \* content of daily_summary.json when the run started
    \* ---- jsonl.rs: sort_by_key and build_sessions_from_records ----
    all_records,     \* the Vec of TimestampRecord, sorted in place
    b_pc,            \* "collected", "sorted", "loop" or "done"
    idx,             \* loop index i, 1-based: all_records[idx] is records[i]
    session_start,
    session_end,
    session_projects,
    session_count,
    sessions,        \* the Vec<Session> being built
    gap,             \* the gap computed by the last loop iteration
    \* ---- overtime.rs: calculate_session_overtime ----
    session,         \* the Session argument: start_time and end_time (UTC)
    o_pc,            \* "idle", "start", "loop" or "done"
    start_local,
    end_local,
    current_date,
    end_date,
    daily,           \* date -> overtime of that date, in seconds
    \* ---- schedule.rs: get_shift_type and is_overtime_hour on one instant ----
    sch_date,        \* the date of the instant
    sch_time,        \* its time of day, seconds since midnight
    sch_pc,          \* "idle", "input", "classified" or "checked"
    sch_shift,       \* what get_shift_type(sch_date) returned
    overtime_hour,   \* what is_overtime_hour returned
    \* ---- jsonl.rs: the attribution loop of load_overtime_from_files ----
    a_sessions,      \* the Vec<Session> the loop runs over
    date_filter,     \* Option<NaiveDate>: {} or one date
    a_idx,           \* the session the loop is at, 1-based
    a_pc,            \* "idle", "loop" or "done"
    result,          \* TodayData: hours and projects
    \* ---- main.rs: one invocation of the program ----
    m_pc,            \* "idle", "start", "loaded", "merged", "archived" or "exited"
    explain,         \* cli.explain, Option<String>: {} or one date string
    recent_data,     \* what load_recent_overtime returned: hours and projects
    n_reads,         \* how many times the run read daily_summary.json
    n_writes,        \* how many times the run wrote daily_summary.json
    exit_status,     \* the exit status of the process
    reported         \* what the run printed: the mode and the totals shown

ledgerVars == <<file, daily_hours, daily_projects, today, loaded, summary,
                updated_count, save_result, lastOp, repeat, prev>>

ledgerVars_noFile == <<daily_hours, daily_projects, today, loaded, summary,
                       updated_count, save_result, lastOp, repeat, prev>>

stepVars == <<tmp_file, proc, file0>>

sliceVars == <<session, o_pc, start_local, end_local, current_date, end_date,
               daily>>

schedVars == <<sch_date, sch_time, sch_pc, sch_shift, overtime_hour>>

sessVars == <<all_records, b_pc, idx, session_start, session_end,
              session_projects, session_count, sessions, gap>>

vars == <<file, daily_hours, daily_projects, today, loaded, summary,
          updated_count, save_result, lastOp, repeat, prev, tmp_file, proc, file0,
          all_records, b_pc, idx, session_start, session_end, session_projects,
          session_count, sessions, gap,
          session, o_pc, start_local, end_local, current_date, end_date, daily,
          sch_date, sch_time, sch_pc, sch_shift, overtime_hour,
          a_sessions, date_filter, a_idx, a_pc, result,
          m_pc, explain, recent_data, n_reads, n_writes, exit_status, reported>>

attrVars == <<a_sessions, date_filter, a_idx, a_pc, result>>

mainVars == <<m_pc, explain, recent_data, n_reads, n_writes, exit_status, reported>>

\* what the actions of one component leave alone
notLedger == <<stepVars, sessVars, sliceVars, schedVars, attrVars, mainVars>>
notStep == <<ledgerVars_noFile, file0, sessVars, sliceVars, schedVars, attrVars, mainVars>>
notSess == <<ledgerVars, stepVars, sliceVars, schedVars, attrVars, mainVars>>
notSlice == <<ledgerVars, stepVars, sessVars, schedVars, attrVars, mainVars>>
notSched == <<ledgerVars, stepVars, sessVars, sliceVars, attrVars, mainVars>>
notAttr == <<ledgerVars, stepVars, sessVars, sliceVars, schedVars, mainVars>>
notMain == <<repeat, prev, tmp_file, proc, file0, sessVars, sliceVars, schedVars, attrVars>>

(***************************************************************************)
(* Bounds of the model.                                                    *)
(***************************************************************************)
NumDates == 2       \* how many of DateList's dates the fresh totals range over
NumChunks == 2      \* how many write calls put one document into a file
MaxEvents == 4      \* how many timestamp records the files hold

(***************************************************************************)
(* The civil calendar of 2025 (chrono's NaiveDate arithmetic).             *)
(***************************************************************************)
Year == 2025
CumDays == <<0, 31, 59, 90, 120, 151, 181, 212, 243, 273, 304, 334, 365>>

MonthOf(date) == CHOOSE m \in 1..12 : CumDays[m] <= date /\ date < CumDays[m + 1]
DayOfMonth(date) == date - CumDays[MonthOf(date)] + 1

\* date.weekday(): 0 = Monday .. 6 = Sunday; 2025-01-01 is a Wednesday
Weekday(date) == (date + 2) % 7

\* date.format("%Y-%m-%d")
format_date(date) == <<Year, MonthOf(date), DayOfMonth(date)>>

\* NaiveDate::parse_from_str(s, "%Y-%m-%d"): the set holding the date, or {}
parse_date(s) ==
    IF /\ s[1] = Year
       /\ s[2] \in 1..12
       /\ s[3] >= 1
       /\ s[3] <= CumDays[s[2] + 1] - CumDays[s[2]]
    THEN {CumDays[s[2]] + s[3] - 1}
    ELSE {}

\* format!("{}-{:02}", date.year(), date.month())
month_key(date) == <<Year, MonthOf(date)>>

(***************************************************************************)
(* schedule.rs                                                             *)
(***************************************************************************)
FIRST_AFTERNOON_START == 208    \* 2025-07-28, a Monday
FIRST_AFTERNOON_END == 213      \* 2025-08-02
CYCLE_LENGTH_DAYS == 21

\* the first-cycle-only and the unguarded variants of the period test
is_afternoon_shift_period_first_cycle(date) ==
    date >= FIRST_AFTERNOON_START /\ date <= FIRST_AFTERNOON_END

is_afternoon_shift_period_unguarded(date) ==
    LET days_since_first == date - FIRST_AFTERNOON_START
        cycle_number == days_since_first \div CYCLE_LENGTH_DAYS
        cycle_start == FIRST_AFTERNOON_START + cycle_number * CYCLE_LENGTH_DAYS
        cycle_end == FIRST_AFTERNOON_END + cycle_number * CYCLE_LENGTH_DAYS
    IN date >= cycle_start /\ date <= cycle_end

is_afternoon_shift_period(date) ==
    LET days_since_first == date - FIRST_AFTERNOON_START IN
    IF days_since_first >= 0
    THEN LET cycle_number == days_since_first \div CYCLE_LENGTH_DAYS
             cycle_start == FIRST_AFTERNOON_START + cycle_number * CYCLE_LENGTH_DAYS
             cycle_end == FIRST_AFTERNOON_END + cycle_number * CYCLE_LENGTH_DAYS
         IN date >= cycle_start /\ date <= cycle_end
    ELSE FALSE

is_weekend(date) == Weekday(date) \in {5, 6}
is_saturday(date) == Weekday(date) = 5
is_saturday_regular_hours(date) == is_saturday(date) /\ is_afternoon_shift_period(date)

\* the variant that looks at the weekend before the period
get_shift_type_weekend_first(date) ==
    IF is_weekend(date)
    THEN "Weekend"
    ELSE IF is_afternoon_shift_period(date) THEN "Afternoon" ELSE "Regular"

get_shift_type(date) ==
    IF is_weekend(date)
    THEN IF is_saturday_regular_hours(date) THEN "SaturdayAfternoon" ELSE "Weekend"
    ELSE IF is_afternoon_shift_period(date) THEN "Afternoon" ELSE "Regular"

(***************************************************************************)
(* archive.rs: the ledger                                                  *)
(***************************************************************************)
\* format_hm: minutes rounded from hours * 60, then "H:MM" as <<H, MM>>
format_hm(hours) ==
    LET total_minutes == (2 * hours + 60) \div 120
    IN <<total_minutes \div 60, total_minutes % 60>>

shift_name(shift_type) ==
    CASE shift_type = "Regular" -> "regular"
      [] shift_type = "Afternoon" -> "afternoon"
      [] shift_type = "Weekend" -> "weekend"
      [] shift_type = "SaturdayAfternoon" -> "saturday_afternoon"

EmptyMap == [k \in {} |-> 0]

Put(m, k, v) == [x \in (DOMAIN m) \cup {k} |-> IF x = k THEN v ELSE m[x]]

\* DailySummaryFile { version: 2, days: HashMap::new(), months: HashMap::new() }
EmptySummary == [version |-> 2, days |-> EmptyMap, months |-> EmptyMap]

\* serde_json::to_string_pretty(summary): the document written to disk
Serialize(s) == [kind |-> "doc", version |-> s.version, days |-> s.days, months |-> s.months]

\* DailySummaryFile::default(): the derived Default, version 0
DefaultSummary == [version |-> 0, days |-> EmptyMap, months |-> EmptyMap]

\* a load that hands on a placeholder entry when the file cannot be parsed
load_summary_placeholder(f) ==
    IF f.kind = "doc"
    THEN [version |-> f.version, days |-> f.days, months |-> f.months]
    ELSE [version |-> 2,
          days |-> [k \in {<<Year, 1, 1>>} |->
                      [hours |-> 0, formatted |-> format_hm(0), shift |-> "morning",
                       processed |-> FALSE, projects |-> {}]],
          months |-> EmptyMap]

\* load_summary: no data directory gives the default ledger; a missing,
\* unreadable or malformed file gives the empty ledger
load_summary(f) ==
    IF f.kind = "doc"
    THEN [version |-> f.version, days |-> f.days, months |-> f.months]
    ELSE IF f.kind = "nodir"
         THEN DefaultSummary
         ELSE EmptySummary

\* should_update that overwrites every entry
should_update_always(days, date_str) == TRUE

\* should_update without the test for hours of exactly zero
should_update_keeps_zero(days, date_str) ==
    IF date_str \notin DOMAIN days
    THEN TRUE
    ELSE ~days[date_str].processed

\* the should_update match of archive_overtime, on days.get(&date_str)
should_update(days, date_str) ==
    IF date_str \notin DOMAIN days
    THEN TRUE
    ELSE ~days[date_str].processed \/ days[date_str].hours = 0

\* daily_projects.get(date).map(..): Option<HashMap<String, ProjectHoursEntry>>
projects_entry(dp, date) ==
    IF date \in DOMAIN dp
    THEN {[name \in DOMAIN dp[date] |->
              [weekday_hours |-> dp[date][name].weekday_hours,
               weekend_hours |-> dp[date][name].weekend_hours]]}
    ELSE {}

\* the DayEntry built for one fresh date
NewDayEntry(dh, dp, date) ==
    [hours |-> dh[date],
     formatted |-> format_hm(dh[date]),
     shift |-> shift_name(get_shift_type(date)),
     processed |-> TRUE,
     projects |-> projects_entry(dp, date)]

\* the first loop without the test for the current date
MergeDates_with_today(days, dh, t) ==
    {date \in DOMAIN dh : should_update(days, format_date(date))}

\* the dates the first loop of archive_overtime writes
MergeDates(days, dh, t) ==
    {date \in DOMAIN dh : date # t /\ should_update(days, format_date(date))}

\* a first loop that builds the day map from the fresh totals alone
MergeDays_fresh_only(days, dh, dp, t) ==
    LET upd == MergeDates(days, dh, t)
        keys == {format_date(date) : date \in upd}
    IN [k \in keys |->
          NewDayEntry(dh, dp, CHOOSE date \in upd : format_date(date) = k)]

\* summary.days after the first loop of archive_overtime
MergeDays(days, dh, dp, t) ==
    LET upd == MergeDates(days, dh, t)
        keys == {format_date(date) : date \in upd}
    IN [k \in (DOMAIN days) \cup keys |->
          IF k \in keys
          THEN NewDayEntry(dh, dp, CHOOSE date \in upd : format_date(date) = k)
          ELSE days[k]]

\* the loop of archive_overtime_full skipping the dates with no hours
ReplaceDays_nonzero(dh, dp, t) ==
    LET upd == {date \in DOMAIN dh : date # t /\ dh[date] # 0}
        keys == {format_date(date) : date \in upd}
    IN [k \in keys |->
          NewDayEntry(dh, dp, CHOOSE date \in upd : format_date(date) = k)]

\* summary.days after the loop of archive_overtime_full
ReplaceDays(dh, dp, t) ==
    LET upd == {date \in DOMAIN dh : date # t}
        keys == {format_date(date) : date \in upd}
    IN [k \in keys |->
          NewDayEntry(dh, dp, CHOOSE date \in upd : format_date(date) = k)]

RECURSIVE SumHours(_, _)
SumHours(days, keys) ==
    IF keys = {}
    THEN 0
    ELSE LET k == CHOOSE x \in keys : TRUE
         IN days[k].hours + SumHours(days, keys \ {k})

\* the day keys that parse to a date of month mk
DaysOfMonth(days, mk) ==
    {k \in DOMAIN days : \E date \in parse_date(k) : month_key(date) = mk}

\* monthly_totals: month key -> sum of the hours of the parsable day entries
monthly_totals(days) ==
    LET mks == {month_key(date) :
                   date \in UNION {parse_date(k) : k \in DOMAIN days}}
    IN [mk \in mks |-> SumHours(days, DaysOfMonth(days, mk))]

\* month totals added to the loaded ones instead of replacing them
RecomputeMonths_incremental(months, days) ==
    LET totals == monthly_totals(days)
    IN [mk \in (DOMAIN months) \cup (DOMAIN totals) |->
          IF mk \in DOMAIN totals
          THEN LET sum == totals[mk] +
                         (IF mk \in DOMAIN months THEN months[mk].total_hours ELSE 0)
               IN [total_hours |-> sum, formatted |-> format_hm(sum)]
          ELSE months[mk]]

\* summary.months after the month loops
RecomputeMonths(months, days) ==
    LET totals == monthly_totals(days)
    IN [mk \in (DOMAIN months) \cup (DOMAIN totals) |->
          IF mk \in DOMAIN totals
          THEN [total_hours |-> totals[mk], formatted |-> format_hm(totals[mk])]
          ELSE months[mk]]

\* a merge that starts from an empty ledger instead of the loaded one
MergeSummary_from_empty(s, dh, dp, t) ==
    LET days == MergeDays(EmptyMap, dh, dp, t)
    IN [version |-> 2, days |-> days, months |-> RecomputeMonths(EmptyMap, days)]

\* the in-memory ledger archive_overtime holds before it saves
MergeSummary(s, dh, dp, t) ==
    LET days == MergeDays(s.days, dh, dp, t)
    IN [version |-> 2, days |-> days, months |-> RecomputeMonths(s.months, days)]

\* the in-memory ledger archive_overtime_full holds before it saves
ReplaceSummary(dh, dp, t) ==
    LET days == ReplaceDays(dh, dp, t)
    IN [version |-> 2, days |-> days, months |-> RecomputeMonths(EmptyMap, days)]

(***************************************************************************)
(* jsonl.rs: session reconstruction                                        *)
(***************************************************************************)
SESSION_GAP_SECONDS == 30 * 60
MIN_SESSION_SECONDS == 5 * 60

\* the events of the model: instants in seconds, and source labels
TimeList == <<0, 300, 2100, 4500, 4800>>
Labels == {"proj", "transcripts"}
Events == {[timestamp |-> TimeList[k], project |-> l] : k \in 1..Len(TimeList), l \in Labels}

\* the Vecs load_overtime_from_files collects from the files, in file order
RecordInputs == UNION {[1..n -> Events] : n \in 0..MaxEvents}

\* all_records.sort_by_key(|r| r.timestamp) left out
sort_by_key_unsorted(records) == records

\* all_records.sort_by_key(|r| r.timestamp): a stable sort
RECURSIVE sort_by_key(_)
sort_by_key(records) ==
    IF Len(records) <= 1
    THEN records
    ELSE LET n == Len(records)
             r == records[n]
             front == sort_by_key(SubSeq(records, 1, n - 1))
             k == Cardinality({j \in 1..(n - 1) : front[j].timestamp <= r.timestamp})
         IN SubSeq(front, 1, k) \o <<r>> \o SubSeq(front, k + 1, n - 1)

\* the comparison that closes the open session, with >= in place of >
gap_exceeds_or_equal(g) == g >= SESSION_GAP_SECONDS

\* gap > SESSION_GAP_SECONDS
gap_exceeds(g) == g > SESSION_GAP_SECONDS

\* the test that keeps a session, with > in place of >=
long_enough_strict(duration) == duration > MIN_SESSION_SECONDS

\* duration >= MIN_SESSION_SECONDS
long_enough(duration) == duration >= MIN_SESSION_SECONDS

\* *session_projects.entry(project).or_insert(0) += 1
CountUp(projects, project) ==
    Put(projects, project, IF project \in DOMAIN projects THEN projects[project] + 1 ELSE 1)

\* the labels max_by_key can return: HashMap iteration order decides ties
Dominant(projects) ==
    {l \in DOMAIN projects : \A m \in DOMAIN projects : projects[m] <= projects[l]}

\* the Session pushed for the open session, its dominant project being proj
SessionOf(count, proj, projects, start, end) ==
    [id |-> count,
     project |-> proj,
     project_counts |-> projects,
     start_time |-> start,
     end_time |-> end,
     duration_seconds |-> end - start]

\* the fields of a Session that do not depend on HashMap iteration order
SessionView(s) ==
    [project_counts |-> s.project_counts,
     start_time |-> s.start_time,
     end_time |-> s.end_time,
     duration_seconds |-> s.duration_seconds]

\* the loop state after the statements before the loop
LoopInit(records) ==
    [start |-> records[1].timestamp,
     end |-> records[1].timestamp,
     projects |-> Put(EmptyMap, records[1].project, 1),
     count |-> 0,
     gap |-> 0,
     out |-> <<>>]

\* the open session is closed: pushed if long enough, with dominant project proj
CloseSession(st, proj) ==
    IF long_enough(st.end - st.start)
    THEN [st EXCEPT !.out = Append(st.out, SessionOf(st.count, proj, st.projects, st.start, st.end)),
                    !.count = st.count + 1]
    ELSE st

\* an iteration that keeps the counts of the closed session
LoopStep_no_clear(st, rec, proj) ==
    LET g == rec.timestamp - st.end
        closed == IF gap_exceeds(g)
                  THEN [CloseSession(st, proj) EXCEPT !.start = rec.timestamp]
                  ELSE st
    IN [closed EXCEPT !.end = rec.timestamp,
                      !.projects = CountUp(closed.projects, rec.project),
                      !.gap = g]

\* one iteration of the loop on record rec; proj decides a tie of max_by_key
LoopStep(st, rec, proj) ==
    LET g == rec.timestamp - st.end
        closed == IF gap_exceeds(g)
                  THEN [CloseSession(st, proj) EXCEPT !.start = rec.timestamp,
                                                      !.projects = EmptyMap]
                  ELSE st
    IN [closed EXCEPT !.end = rec.timestamp,
                      !.projects = CountUp(closed.projects, rec.project),
                      !.gap = g]

\* a choice among the results of max_by_key, for the function as a whole
AnyDominant(projects) == CHOOSE l \in Dominant(projects) : TRUE

RECURSIVE LoopFrom(_, _, _)
LoopFrom(st, records, k) ==
    IF k > Len(records)
    THEN st
    ELSE LoopFrom(LoopStep(st, records[k], AnyDominant(st.projects)), records, k + 1)

\* build_sessions_from_records as a function, up to the dominant project
build_sessions_from_records(records) ==
    IF records = <<>>
    THEN <<>>
    ELSE LET st == LoopFrom(LoopInit(records), records, 2)
         IN [k \in 1..Len(CloseSession(st, AnyDominant(st.projects)).out) |->
               SessionView(CloseSession(st, AnyDominant(st.projects)).out[k])]

MainIdle ==
    /\ m_pc = "idle"
    /\ explain = {}
    /\ recent_data = [hours |-> EmptyMap, projects |-> EmptyMap]
    /\ n_reads = 0
    /\ n_writes = 0
    /\ exit_status = 0
    /\ reported = [mode |-> "none", hours |-> EmptyMap, projects |-> EmptyMap]

AttrIdle ==
    /\ a_sessions = <<>>
    /\ date_filter = {}
    /\ a_idx = 0
    /\ a_pc = "idle"
    /\ result = [hours |-> EmptyMap, projects |-> EmptyMap]

SchedIdle ==
    /\ sch_date = 0
    /\ sch_time = 0
    /\ sch_pc = "idle"
    /\ sch_shift = "none"
    /\ overtime_hour = FALSE

SliceIdle ==
    /\ session = [start_time |-> 0, end_time |-> 0]
    /\ o_pc = "idle"
    /\ start_local = 0
    /\ end_local = 0
    /\ current_date = 0
    /\ end_date = 0
    /\ daily = EmptyMap

SessIdle ==
    /\ all_records = <<>>
    /\ b_pc = "idle"
    /\ idx = 0
    /\ session_start = 0
    /\ session_end = 0
    /\ session_projects = EmptyMap
    /\ session_count = 0
    /\ sessions = <<>>
    /\ gap = 0

(***************************************************************************)
(* The ledger runs: inputs and initial ledgers.                            *)
(***************************************************************************)
\* 2025-07-30 (Wed, afternoon period), 2025-08-02 (Sat, afternoon period),
\* 2025-08-05 (Tue, regular), 2025-07-27 (Sun, before the anchor)
DateList == <<210, 213, 216, 207>>
Dates == {DateList[i] : i \in 1..NumDates}

\* hour values, in seconds: 0 h, 0.5 h, 1 h 30.5 min, 2 h
HourList == <<0, 1800, 5430, 7200>>
FreshHours == {HourList[1], HourList[2]}

\* hours of the day entries already in the ledger when the model starts: 2 h
LedgerHours == HourList[Len(HourList)]

\* 2025-08-12 and 2025-08-19, dates that no fresh total names
OtherDates == <<223, 230>>
\* a date of the ledger that no fresh total names
OldDate == OtherDates[1]
\* the dates a run can take place on: the first fresh date, or 2025-08-19,
\* which is later than every date of the model
LaterDate == OtherDates[2]
TodayDates == {DateList[1], LaterDate}
\* a day key that is no calendar date, "2025-02-30", and a month with no day
BadKey == <<Year, 2, 30>>
StaleMonth == <<Year, 6>>

\* the project split of one date: everything on one project
SplitOf(date, hours) ==
    [name \in {"proj"} |->
        IF is_weekend(date)
        THEN [weekday_hours |-> 0, weekend_hours |-> hours]
        ELSE [weekday_hours |-> hours, weekend_hours |-> 0]]

\* the dates whose hours and entries vary in every way; a further date has
\* one value of fresh hours and one old entry
FullDates == {DateList[1], DateList[2]}

\* the day totals a run can be given
DailyHoursInputs ==
    UNION {{dh \in [S -> FreshHours] :
              \A date \in S \ FullDates : dh[date] = HourList[2]} :
           S \in SUBSET Dates}

\* the project totals a run can be given with day totals dh
DailyProjectsInputs(dh) ==
    {EmptyMap, [date \in DOMAIN dh |-> SplitOf(date, dh[date])]}

\* a day entry as an earlier run or another writer of the file left it
OldEntry(date, hours, processed) ==
    [hours |-> hours,
     formatted |-> format_hm(hours),
     shift |-> shift_name(get_shift_type(date)),
     processed |-> processed,
     projects |-> {}]

OldEntries(date) ==
    IF date \in FullDates
    THEN {OldEntry(date, 0, TRUE), OldEntry(date, LedgerHours, TRUE),
          OldEntry(date, LedgerHours, FALSE)}
    ELSE {OldEntry(date, LedgerHours, TRUE)}

\* day maps over the fresh dates: each date absent or one of OldEntries
RECURSIVE OldDayMaps(_)
OldDayMaps(ds) ==
    IF ds = {}
    THEN {EmptyMap}
    ELSE LET date == CHOOSE x \in ds : TRUE
             rest == OldDayMaps(ds \ {date})
         IN rest \cup {Put(m, format_date(date), e) : m \in rest, e \in OldEntries(date)}

\* day maps with two further entries, an old date and a bad key, beside at
\* most an entry of the first fresh date
OldDayMapsExtra ==
    {Put(Put(m, format_date(OldDate), OldEntry(OldDate, LedgerHours, TRUE)),
         BadKey, OldEntry(OldDate, LedgerHours, TRUE)) :
        m \in OldDayMaps({DateList[1]})}

\* a month map that does not agree with the day map: every total is off by
\* a minute, and a month is listed none of whose days is in the day map
WrongMonths(days) ==
    LET right == RecomputeMonths(EmptyMap, days)
    IN [mk \in (DOMAIN right) \cup {StaleMonth} |->
          IF mk \in DOMAIN right
          THEN [total_hours |-> right[mk].total_hours + 60,
                formatted |-> format_hm(right[mk].total_hours + 60)]
          ELSE [total_hours |-> LedgerHours, formatted |-> format_hm(LedgerHours)]]

\* daily_summary.json as a run may find it: absent, unreadable as a ledger,
\* written by this program, or written by hand or by another program
InitFiles ==
    {[kind |-> "missing"], [kind |-> "malformed"]}
    \cup {[kind |-> "doc", version |-> 2, days |-> d,
           months |-> RecomputeMonths(EmptyMap, d)] : d \in OldDayMaps(Dates)}
    \cup {[kind |-> "doc", version |-> 1, days |-> d,
           months |-> WrongMonths(d)] : d \in OldDayMapsExtra}

(***************************************************************************)
(* Actions of the ledger runs.                                             *)
(***************************************************************************)
\* the processes of the step-by-step runs, and one that has not started
Procs == {1, 2}
ProcOff ==
    [pc |-> "off", dh |-> EmptyMap, dp |-> EmptyMap, today |-> DateList[1],
     loaded |-> EmptySummary, summary |-> EmptySummary, n |-> 0, off |-> 0,
     result |-> "none",
     out |-> [mode |-> "none", hours |-> EmptyMap, projects |-> EmptyMap]]

NoPrev == [summary |-> EmptySummary, file |-> [kind |-> "missing"], save_result |-> "none"]

InitLedger ==
    /\ file \in InitFiles
    /\ daily_hours = EmptyMap
    /\ daily_projects = EmptyMap
    /\ today = DateList[1]
    /\ loaded = EmptySummary
    /\ summary = EmptySummary
    /\ updated_count = 0
    /\ save_result = "none"
    /\ lastOp = "none"
    /\ repeat = FALSE
    /\ prev = NoPrev
    /\ tmp_file = [kind |-> "missing"]
    /\ proc = [p \in Procs |-> ProcOff]
    /\ file0 = [kind |-> "missing"]
    /\ SessIdle
    /\ SliceIdle
    /\ SchedIdle
    /\ AttrIdle
    /\ MainIdle

\* one call of archive_overtime(dh, dp) on date t; ok: the save succeeds
ArchiveRun(dh, dp, t, ok) ==
    LET ld == load_summary(file)
        s == MergeSummary(ld, dh, dp, t)
        n == Cardinality(MergeDates(ld.days, dh, t))
    IN /\ daily_hours' = dh
       /\ daily_projects' = dp
       /\ today' = t
       /\ loaded' = ld
       /\ summary' = s
       /\ updated_count' = n
       /\ IF n > 0
          THEN IF ok
               THEN file' = Serialize(s) /\ save_result' = "ok"
               ELSE file' = file /\ save_result' = "err"
          ELSE file' = file /\ save_result' = "none"
       /\ lastOp' = "merge"

\* a run of the program that merges: main calls archive_overtime
archive_overtime ==
    /\ lastOp = "none"
    /\ \E dh \in DailyHoursInputs, t \in TodayDates :
         \E dp \in DailyProjectsInputs(dh) :
           \E ok \in IF MergeDates(load_summary(file).days, dh, t) = {}
                      THEN {TRUE} ELSE BOOLEAN :
             ArchiveRun(dh, dp, t, ok)
    /\ repeat' = FALSE
    /\ prev' = NoPrev
    /\ UNCHANGED notLedger

\* the next run of the program gets the same totals on the same date
archive_overtime_again ==
    /\ lastOp = "merge"
    /\ ~repeat
    /\ \E ok \in BOOLEAN : ArchiveRun(daily_hours, daily_projects, today, ok)
    /\ repeat' = TRUE
    /\ prev' = [summary |-> summary, file |-> file, save_result |-> save_result]
    /\ UNCHANGED notLedger

\* a run that resynchronises: archive_overtime_full(dh, dp) on date t
archive_overtime_full ==
    /\ lastOp = "none"
    /\ \E dh \in DailyHoursInputs, t \in TodayDates, ok \in BOOLEAN :
         \E dp \in DailyProjectsInputs(dh) :
           LET s == ReplaceSummary(dh, dp, t) IN
           /\ daily_hours' = dh
           /\ daily_projects' = dp
           /\ today' = t
           /\ loaded' = EmptySummary
           /\ summary' = s
           /\ updated_count' = 0
           /\ IF ok
              THEN file' = Serialize(s) /\ save_result' = "ok"
              ELSE file' = file /\ save_result' = "err"
    /\ lastOp' = "replace"
    /\ repeat' = FALSE
    /\ prev' = NoPrev
    /\ UNCHANGED notLedger

\* the process ends: its memory is gone, the file stays
process_exit ==
    /\ lastOp # "none"
    /\ daily_hours' = EmptyMap
    /\ daily_projects' = EmptyMap
    /\ today' = DateList[1]
    /\ loaded' = EmptySummary
    /\ summary' = EmptySummary
    /\ updated_count' = 0
    /\ save_result' = "none"
    /\ lastOp' = "none"
    /\ repeat' = FALSE
    /\ prev' = NoPrev
    /\ UNCHANGED notLedger
    /\ UNCHANGED file

NextLedger ==
    \/ archive_overtime
    \/ archive_overtime_again
    \/ archive_overtime_full
    \/ process_exit

SpecLedger == InitLedger /\ [][NextLedger]_vars

(***************************************************************************)
(* archive.rs: one run of archive_overtime, one system call at a time.     *)
(* A file is written in NumChunks write calls; a file that holds all the   *)
(* chunks of one document, in order, is that document.                     *)
(***************************************************************************)
\* save_summary writing straight to the destination path
tmp_path_is_path == "dest"

\* path.with_extension("json.tmp"): where save_summary writes the content
tmp_path == "tmp"

\* what a file holds where nothing was written: past a truncation or in a gap
Hole == [doc |-> [kind |-> "missing"], i |-> 0]

\* the chunks of a document, as fs::write hands them to the system
ChunksOf(doc) == [i \in 1..NumChunks |-> [doc |-> doc, i |-> i]]

\* the content of a file that holds the chunks cs
FileOf(cs) ==
    IF Len(cs) = NumChunks /\ cs = ChunksOf(cs[1].doc) /\ cs[1].doc.kind = "doc"
    THEN cs[1].doc
    ELSE [kind |-> "partial", chunks |-> cs]

\* the chunks a file holds
ChunksIn(f) ==
    IF f.kind = "doc" THEN ChunksOf(f)
    ELSE IF f.kind = "partial" THEN f.chunks
    ELSE <<>>

\* a write call of chunk c at chunk offset off
WriteAt(f, off, c) ==
    LET cs == ChunksIn(f)
        len == IF Len(cs) > off + 1 THEN Len(cs) ELSE off + 1
    IN FileOf([j \in 1..len |->
                 IF j = off + 1 THEN c
                 ELSE IF j <= Len(cs) THEN cs[j] ELSE Hole])

\* the file save_summary writes to, and an assignment to it
Target == IF tmp_path = "tmp" THEN tmp_file ELSE file
SetTarget(c) ==
    IF tmp_path = "tmp"
    THEN tmp_file' = c /\ UNCHANGED file
    ELSE file' = c /\ UNCHANGED tmp_file

\* the file the descriptor held by fs::write refers to: the file it opened
\* at tmp_path, which is the destination once a rename has moved it there
Opened == IF tmp_path = "tmp" /\ tmp_file.kind # "missing" THEN tmp_file ELSE file
SetOpened(c) ==
    IF tmp_path = "tmp" /\ tmp_file.kind # "missing"
    THEN tmp_file' = c /\ UNCHANGED file
    ELSE file' = c /\ UNCHANGED tmp_file

ProcStart ==
    [pc |-> "start", dh |-> EmptyMap, dp |-> EmptyMap, today |-> DateList[1],
     loaded |-> EmptySummary, summary |-> EmptySummary, n |-> 0, off |-> 0,
     result |-> "none",
     out |-> [mode |-> "none", hours |-> EmptyMap, projects |-> EmptyMap]]

\* a temporary file that an earlier, interrupted run left behind
LeftoverTmp == [kind |-> "partial", chunks |-> <<[doc |-> Serialize(EmptySummary), i |-> 1]>>]

InitSave ==
    /\ file \in InitFiles
    /\ file0 = file
    /\ tmp_file \in {[kind |-> "missing"], LeftoverTmp}
    /\ proc = [p \in Procs |-> IF p = 1 THEN ProcStart ELSE ProcOff]
    /\ daily_hours = EmptyMap
    /\ daily_projects = EmptyMap
    /\ today = DateList[1]
    /\ loaded = EmptySummary
    /\ summary = EmptySummary
    /\ updated_count = 0
    /\ save_result = "none"
    /\ lastOp = "none"
    /\ repeat = FALSE
    /\ prev = NoPrev
    /\ SessIdle
    /\ SliceIdle
    /\ SchedIdle
    /\ AttrIdle
    /\ MainIdle

\* archive_overtime is entered with its arguments: today and load_summary
run_load(p) ==
    /\ proc[p].pc = "start"
    /\ \E dh \in DailyHoursInputs, t \in TodayDates :
         \E dp \in DailyProjectsInputs(dh) :
           proc' = [proc EXCEPT ![p] =
                      [@ EXCEPT !.pc = "loaded", !.dh = dh, !.dp = dp,
                                !.today = t, !.loaded = load_summary(file)]]
    /\ UNCHANGED <<file, tmp_file, notStep>>

\* the two loops of archive_overtime, in memory; no save when nothing changed
run_merge(p) ==
    /\ proc[p].pc = "loaded"
    /\ LET q == proc[p]
           n == Cardinality(MergeDates(q.loaded.days, q.dh, q.today))
       IN proc' = [proc EXCEPT ![p] =
                     [@ EXCEPT !.pc = IF n > 0 THEN "save" ELSE "done",
                               !.summary = MergeSummary(q.loaded, q.dh, q.dp, q.today),
                               !.n = n]]
    /\ UNCHANGED <<file, tmp_file, notStep>>

\* save_summary: fs::create_dir_all(parent) succeeds
save_mkdir(p) ==
    /\ proc[p].pc = "save"
    /\ proc' = [proc EXCEPT ![p].pc = "mkdir"]
    /\ UNCHANGED <<file, tmp_file, notStep>>

\* save_summary: fs::write opens the file, which truncates it
save_open(p) ==
    /\ proc[p].pc = "mkdir"
    /\ SetTarget([kind |-> "partial", chunks |-> <<>>])
    /\ proc' = [proc EXCEPT ![p] = [@ EXCEPT !.pc = "write", !.off = 0]]
    /\ UNCHANGED notStep

\* save_summary: fs::write writes the next chunk of the document
save_write(p) ==
    /\ proc[p].pc = "write"
    /\ proc[p].off < NumChunks
    /\ LET q == proc[p]
           c == ChunksOf(Serialize(q.summary))[q.off + 1]
       IN /\ SetOpened(WriteAt(Opened, q.off, c))
          /\ proc' = [proc EXCEPT ![p] =
                        [@ EXCEPT !.off = q.off + 1,
                                  !.pc = IF q.off + 1 = NumChunks THEN "rename" ELSE "write"]]
    /\ UNCHANGED notStep

\* save_summary: fs::rename(tmp_path, path); it fails when tmp_path is gone
save_rename(p) ==
    /\ proc[p].pc = "rename"
    /\ IF Target.kind = "missing"
       THEN /\ proc' = [proc EXCEPT ![p] = [@ EXCEPT !.pc = "done", !.result = "err"]]
            /\ UNCHANGED <<file, tmp_file>>
       ELSE /\ proc' = [proc EXCEPT ![p] = [@ EXCEPT !.pc = "done", !.result = "ok"]]
            /\ IF tmp_path = "tmp"
               THEN file' = tmp_file /\ tmp_file' = [kind |-> "missing"]
               ELSE UNCHANGED <<file, tmp_file>>
    /\ UNCHANGED notStep

\* an archive_overtime that propagates the error of save_summary: the
\* process ends without printing
save_fail_aborts(p) ==
    /\ proc[p].pc \in {"save", "mkdir", "write", "rename"}
    /\ proc' = [proc EXCEPT ![p] = [@ EXCEPT !.pc = "exited", !.result = "err"]]
    /\ UNCHANGED <<file, tmp_file, notStep>>

\* save_summary: the system call at hand returns an error; archive_overtime
\* prints it and returns
save_fail(p) ==
    /\ proc[p].pc \in {"save", "mkdir", "write", "rename"}
    /\ proc' = [proc EXCEPT ![p] = [@ EXCEPT !.pc = "done", !.result = "err"]]
    /\ UNCHANGED <<file, tmp_file, notStep>>

\* back in main: the report is printed from the totals main holds
run_report(p) ==
    /\ proc[p].pc = "done"
    /\ proc' = [proc EXCEPT ![p] =
                  [@ EXCEPT !.pc = "exited",
                            !.out = [mode |-> "report", hours |-> proc[p].dh,
                                     projects |-> proc[p].dp]]]
    /\ UNCHANGED <<file, tmp_file, notStep>>

\* the process is killed between two steps
crash(p) ==
    /\ proc[p].pc \in {"start", "loaded", "save", "mkdir", "write", "rename"}
    /\ proc' = [proc EXCEPT ![p].pc = "crashed"]
    /\ UNCHANGED <<file, tmp_file, notStep>>

NextSave ==
    \E p \in {1} :
       \/ run_load(p)
       \/ run_merge(p)
       \/ save_mkdir(p)
       \/ save_open(p)
       \/ save_write(p)
       \/ save_rename(p)
       \/ save_fail(p)
       \/ run_report(p)
       \/ crash(p)

SpecSave == InitSave /\ [][NextSave]_vars

(***************************************************************************)
(* archive.rs: two runs of archive_overtime at the same time, as two       *)
(* processes that share daily_summary.json and daily_summary.json.tmp.     *)
(***************************************************************************)
\* the date the sessions of run p fall on, and the day that is today
RaceDate(p) == DateList[p]
RaceToday == LaterDate

\* the ledger as the two runs find it: absent, or with one old entry
RaceFiles ==
    {[kind |-> "missing"],
     Serialize(MergeSummary(EmptySummary,
                            [date \in {OldDate} |-> LedgerHours],
                            EmptyMap, RaceToday))}

InitRace ==
    /\ file \in RaceFiles
    /\ file0 = file
    /\ tmp_file \in {[kind |-> "missing"], LeftoverTmp}
    /\ proc = [p \in Procs |-> ProcStart]
    /\ daily_hours = EmptyMap
    /\ daily_projects = EmptyMap
    /\ today = DateList[1]
    /\ loaded = EmptySummary
    /\ summary = EmptySummary
    /\ updated_count = 0
    /\ save_result = "none"
    /\ lastOp = "none"
    /\ repeat = FALSE
    /\ prev = NoPrev
    /\ SessIdle
    /\ SliceIdle
    /\ SchedIdle
    /\ AttrIdle
    /\ MainIdle

\* run p enters archive_overtime with the totals of its own date
race_load(p) ==
    /\ proc[p].pc = "start"
    /\ \E h \in FreshHours \ {0} :
         proc' = [proc EXCEPT ![p] =
                    [@ EXCEPT !.pc = "loaded",
                              !.dh = [date \in {RaceDate(p)} |-> h],
                              !.dp = [date \in {RaceDate(p)} |-> SplitOf(date, h)],
                              !.today = RaceToday,
                              !.loaded = load_summary(file)]]
    /\ UNCHANGED <<file, tmp_file, notStep>>

\* no system call fails by itself and no process is killed: what goes wrong
\* is the doing of the other run
NextRace ==
    \E p \in Procs :
       \/ race_load(p)
       \/ run_merge(p)
       \/ save_mkdir(p)
       \/ save_open(p)
       \/ save_write(p)
       \/ save_rename(p)
       \/ run_report(p)

SpecRace == InitRace /\ [][NextRace]_vars

(***************************************************************************)
(* The session reconstruction, statement by statement.                     *)
(***************************************************************************)
InitSessions ==
    /\ all_records \in RecordInputs
    /\ b_pc = "collected"
    /\ idx = 0
    /\ session_start = 0
    /\ session_end = 0
    /\ session_projects = EmptyMap
    /\ session_count = 0
    /\ sessions = <<>>
    /\ gap = 0
    /\ SliceIdle
    /\ SchedIdle
    /\ AttrIdle
    /\ MainIdle
    /\ file = [kind |-> "missing"]
    /\ daily_hours = EmptyMap
    /\ daily_projects = EmptyMap
    /\ today = DateList[1]
    /\ loaded = EmptySummary
    /\ summary = EmptySummary
    /\ updated_count = 0
    /\ save_result = "none"
    /\ lastOp = "none"
    /\ repeat = FALSE
    /\ prev = NoPrev
    /\ tmp_file = [kind |-> "missing"]
    /\ proc = [p \in Procs |-> ProcOff]
    /\ file0 = [kind |-> "missing"]

\* load_overtime_from_files: all_records.sort_by_key(|r| r.timestamp)
sort_records ==
    /\ b_pc = "collected"
    /\ all_records' = sort_by_key(all_records)
    /\ b_pc' = "sorted"
    /\ UNCHANGED <<idx, session_start, session_end, session_projects,
                   session_count, sessions, gap, notSess>>

\* build_sessions_from_records up to the loop; empty input returns at once
build_begin ==
    /\ b_pc = "sorted"
    /\ IF all_records = <<>>
       THEN /\ b_pc' = "done"
            /\ UNCHANGED <<idx, session_start, session_end, session_projects>>
       ELSE /\ b_pc' = "loop"
            /\ idx' = 2
            /\ session_start' = LoopInit(all_records).start
            /\ session_end' = LoopInit(all_records).end
            /\ session_projects' = LoopInit(all_records).projects
    /\ UNCHANGED <<all_records, session_count, sessions, gap, notSess>>

\* the loop state held in the variables
LoopState ==
    [start |-> session_start, end |-> session_end, projects |-> session_projects,
     count |-> session_count, gap |-> gap, out |-> sessions]

SetLoopState(st) ==
    /\ session_start' = st.start
    /\ session_end' = st.end
    /\ session_projects' = st.projects
    /\ session_count' = st.count
    /\ gap' = st.gap
    /\ sessions' = st.out

\* one iteration of the loop over records[1..]
build_iter ==
    /\ b_pc = "loop"
    /\ idx <= Len(all_records)
    /\ \E proj \in Dominant(session_projects) :
         SetLoopState(LoopStep(LoopState, all_records[idx], proj))
    /\ idx' = idx + 1
    /\ UNCHANGED <<all_records, b_pc, notSess>>

\* after the loop: the last open session is closed and the Vec returned
build_end ==
    /\ b_pc = "loop"
    /\ idx > Len(all_records)
    /\ \E proj \in Dominant(session_projects) :
         SetLoopState(CloseSession(LoopState, proj))
    /\ b_pc' = "done"
    /\ UNCHANGED <<all_records, idx, notSess>>

NextSessions ==
    \/ sort_records
    \/ build_begin
    \/ build_iter
    \/ build_end

SpecSessions == InitSessions /\ [][NextSessions]_vars

(***************************************************************************)
(* Properties of the ledger merge.                                         *)
(***************************************************************************)
\* C1: a merge run never changes a day entry that is finalized with hours
\* other than 0: the entry (hours, formatted, shift, projects, flag) is the
\* same in the file before and after the run and in the run's ledger.
C1_FinalizedStable ==
    [][(lastOp' = "merge" /\ file.kind = "doc") =>
         \A k \in DOMAIN file.days :
            (file.days[k].processed /\ file.days[k].hours # 0) =>
               /\ file'.kind = "doc"
               /\ k \in DOMAIN file'.days
               /\ file'.days[k] = file.days[k]
               /\ k \in DOMAIN summary'.days
               /\ summary'.days[k] = file.days[k]]_vars

\* a merge was saved although a finalized nonzero entry had other fresh hours
C1_Witness ==
    /\ lastOp = "merge"
    /\ save_result = "ok"
    /\ \E date \in DOMAIN daily_hours :
         LET k == format_date(date) IN
         /\ date # today
         /\ k \in DOMAIN loaded.days
         /\ loaded.days[k].processed
         /\ loaded.days[k].hours # 0
         /\ loaded.days[k].hours # daily_hours[date]
         /\ file.days[k] = loaded.days[k]

\* C2: for every fresh date other than today, the merge writes the fresh
\* value iff the ledger has no entry for the date, or the entry is not
\* finalized, or its hours are 0; the entry written has the fresh hours, the
\* shift name of the date's classification, the fresh project split and
\* finalized = TRUE; otherwise the entry stays as loaded.
C2_MergePolicy ==
    lastOp = "merge" =>
      \A date \in DOMAIN daily_hours :
         date # today =>
           LET k == format_date(date)
               writes == \/ k \notin DOMAIN loaded.days
                         \/ ~loaded.days[k].processed
                         \/ loaded.days[k].hours = 0
           IN /\ k \in DOMAIN summary.days
              /\ writes =>
                    /\ summary.days[k].hours = daily_hours[date]
                    /\ summary.days[k].shift = shift_name(get_shift_type(date))
                    /\ summary.days[k].projects =
                          (IF date \in DOMAIN daily_projects
                           THEN {daily_projects[date]} ELSE {})
                    /\ summary.days[k].processed
              /\ ~writes => summary.days[k] = loaded.days[k]
              /\ save_result = "ok" => file.days[k] = summary.days[k]

\* one merge took all three writing branches and the non-writing one
C2_Witness ==
    /\ lastOp = "merge"
    /\ save_result = "ok"
    /\ \E d1, d2 \in DOMAIN daily_hours :
         /\ d1 # today /\ d2 # today
         /\ format_date(d1) \in DOMAIN loaded.days
         /\ loaded.days[format_date(d1)].processed
         /\ loaded.days[format_date(d1)].hours = 0
         /\ daily_hours[d1] # 0
         /\ summary.days[format_date(d1)].hours = daily_hours[d1]
         /\ d1 \in DOMAIN daily_projects
         /\ format_date(d2) \in DOMAIN loaded.days
         /\ loaded.days[format_date(d2)].processed
         /\ loaded.days[format_date(d2)].hours # 0
         /\ daily_hours[d2] # loaded.days[format_date(d2)].hours

\* C3: merge and replace never create or modify the day entry of the current
\* date: across a merge the entry (present or absent) is the same in the
\* file and in the run's ledger; a replace leaves no entry for it that was
\* not there, unchanged, before.
C3_TodayUntouched ==
    [][LET k == format_date(today')
           before == IF file.kind = "doc" /\ k \in DOMAIN file.days
                     THEN {file.days[k]} ELSE {}
           after == IF file'.kind = "doc" /\ k \in DOMAIN file'.days
                    THEN {file'.days[k]} ELSE {}
           inmem == IF k \in DOMAIN summary'.days THEN {summary'.days[k]} ELSE {}
       IN /\ lastOp' = "merge" => (after = before /\ inmem = before)
          /\ lastOp' = "replace" => (after \subseteq before /\ inmem = {})]_vars

\* a saved merge whose fresh totals had hours for today, while the ledger's
\* entry for today was one the policy would overwrite
C3_Witness ==
    /\ lastOp = "merge"
    /\ save_result = "ok"
    /\ today \in DOMAIN daily_hours
    /\ format_date(today) \in DOMAIN loaded.days
    /\ ~loaded.days[format_date(today)].processed
    /\ daily_hours[today] # loaded.days[format_date(today)].hours
    /\ file.days[format_date(today)] = loaded.days[format_date(today)]

\* C4: merging the same fresh totals again on the same date gives a ledger
\* with the same day and month maps as merging them once, and leaves the
\* file as the first merge left it.
C4_MergeIdempotent ==
    repeat =>
      /\ summary.days = prev.summary.days
      /\ summary.months = prev.summary.months
      /\ prev.save_result # "err" => file = prev.file

\* both merges saved: the second one rewrote entries the first one wrote
C4_Witness ==
    /\ repeat
    /\ prev.save_result = "ok"
    /\ save_result = "ok"
    /\ \E mk \in DOMAIN summary.months : summary.months[mk].total_hours > 0

\* C5: after a merge every month entry of the ledger has as total_hours the
\* sum of the hours of the day entries whose date lies in that month.
C5_MonthsReflectDays ==
    lastOp = "merge" =>
      \A mk \in DOMAIN summary.months :
         summary.months[mk].total_hours =
            SumHours(summary.days, DaysOfMonth(summary.days, mk))

\* C20: archive_overtime_full produces a ledger whose day entries are exactly
\* the fresh dates other than today, each with the fresh hours and processed
\* = true, and whose month totals are the sums of those day entries; nothing
\* of the ledger persisted before survives, and the save is attempted, and
\* writes this ledger, also when the ledger is empty.
C20_ReplaceIsExact ==
    [][lastOp' = "replace" =>
         LET fresh == (DOMAIN daily_hours') \ {today'}
             days == summary'.days
             months == summary'.months
             inMonth(mk) == {k \in DOMAIN days : k[1] = mk[1] /\ k[2] = mk[2]}
         IN /\ DOMAIN days = {format_date(d) : d \in fresh}
            /\ \A d \in fresh :
                  /\ days[format_date(d)].hours = daily_hours'[d]
                  /\ days[format_date(d)].processed
            /\ DOMAIN months = {<<k[1], k[2]>> : k \in DOMAIN days}
            /\ \A mk \in DOMAIN months :
                  months[mk].total_hours = SumHours(days, inMonth(mk))
            /\ save_result' \in {"ok", "err"}
            /\ save_result' = "ok" =>
                  /\ file'.kind = "doc"
                  /\ file'.days = days
                  /\ file'.months = months
            /\ save_result' = "err" => file' = file]_vars

\* a saved replace over a ledger written by hand, whose fresh totals had
\* today and one more date, that one with no hours
C20_Witness ==
    /\ lastOp = "replace"
    /\ save_result = "ok"
    /\ today \in DOMAIN daily_hours
    /\ \E d \in DOMAIN daily_hours :
         /\ d # today
         /\ daily_hours[d] = 0
         /\ DOMAIN file.days = {format_date(d)}
         /\ file.days[format_date(d)].processed
         /\ DOMAIN file.months = {month_key(d)}

(***************************************************************************)
(* Properties of save_summary.                                             *)
(***************************************************************************)
\* C6: with one writer, at every step of the run and after a crash at any
\* step, daily_summary.json holds either exactly what it held before the
\* run or the complete document of the new ledger, never a part of one.
C6_AtomicSave ==
    proc[1].pc # "off" =>
      /\ file.kind # "partial"
      /\ file = file0 \/ file = Serialize(proc[1].summary)

\* the process was killed when it had written a part of the new document
\* and the destination did not yet hold the new ledger
C6_Witness ==
    /\ proc[1].pc = "crashed"
    /\ proc[1].off >= 1
    /\ proc[1].off < NumChunks
    /\ tmp_file.kind = "partial"
    /\ file = file0
    /\ file # Serialize(proc[1].summary)

(***************************************************************************)
(* overtime.rs: the overtime of one session, sliced by local date.         *)
(* Instants are seconds since 2025-01-01 00:00:00, dates are days since    *)
(* 2025-01-01, times of day are seconds since midnight.                    *)
(***************************************************************************)
NumOffsets == 3     \* how many start instants, 600 s apart, follow each base

DAY == 24 * 3600

\* the two changes of the Warsaw clock in 2025, as UTC instants:
\* 2025-03-30 01:00:00 (02:00 -> 03:00) and 2025-10-26 01:00:00 (03:00 -> 02:00)
DST_BEGIN == 88 * DAY + 3600
DST_END == 298 * DAY + 3600

\* and_utc().with_timezone(&Warsaw).naive_local()
naive_local(utc) ==
    IF utc >= DST_BEGIN /\ utc < DST_END THEN utc + 2 * 3600 ELSE utc + 3600

date_of(local) == local \div DAY
time_of(local) == local % DAY
and_hms_opt(date, h, m, sec) == date * DAY + h * 3600 + m * 60 + sec
from_hms_opt(h, m, sec) == h * 3600 + m * 60 + sec

Max(a, b) == IF a >= b THEN a ELSE b
Min(a, b) == IF a <= b THEN a ELSE b

\* Option<WorkWindow> as a set of at most one window
get_regular_work_window(date) ==
    CASE get_shift_type(date) = "Regular" ->
           {[start |-> from_hms_opt(6, 0, 0), end |-> from_hms_opt(15, 0, 0)]}
      [] get_shift_type(date) = "Afternoon" ->
           {[start |-> from_hms_opt(15, 0, 0), end |-> from_hms_opt(21, 0, 0)]}
      [] get_shift_type(date) = "SaturdayAfternoon" ->
           {[start |-> from_hms_opt(8, 0, 0), end |-> from_hms_opt(14, 0, 0)]}
      [] OTHER -> {}

\* the variant that counts only the part before the window
calculate_overtime_for_day_before_only(date, start, end) ==
    IF get_shift_type(date) = "Weekend"
    THEN end - start
    ELSE IF get_regular_work_window(date) # {}
         THEN LET window == CHOOSE w \in get_regular_work_window(date) : TRUE
              IN IF start < window.start
                 THEN Min(end, window.start) - start
                 ELSE 0
         ELSE end - start

calculate_overtime_for_day(date, start, end) ==
    IF get_shift_type(date) = "Weekend"
    THEN end - start
    ELSE IF get_regular_work_window(date) # {}
         THEN LET window == CHOOSE w \in get_regular_work_window(date) : TRUE
                  before == IF start < window.start
                            THEN Min(end, window.start) - start
                            ELSE 0
                  after == IF end > window.end
                           THEN end - Max(start, window.end)
                           ELSE 0
              IN before + after
         ELSE end - start

\* the sessions the slicing is run on: they start at and shortly after
\*   2025-03-30 00:30 UTC, a Sunday, half an hour before the clock goes forward
\*   2025-10-26 00:30 UTC, a Sunday, half an hour before the clock goes back
\*   2025-08-01 21:40 UTC, a Friday of an afternoon week, 23:40 local
\*   2025-08-05 03:40 UTC, a Tuesday of a regular week, 05:40 local
\*   2025-08-05 12:40 UTC, the same Tuesday, 14:40 local
SliceBases ==
    <<88 * DAY + 1800,
      298 * DAY + 1800,
      212 * DAY + 21 * 3600 + 2400,
      216 * DAY + 3 * 3600 + 2400,
      216 * DAY + 12 * 3600 + 2400>>

\* the durations of the sessions: none is below MIN_SESSION_SECONDS
SliceDurations == {MIN_SESSION_SECONDS, 1200, 3600, DAY + 3600}

\* the session that is local from h1:00 on date1 to h2:00 on date2, both in
\* the summer of 2025, when Warsaw is two hours ahead of UTC
SummerSession(date1, h1, date2, h2) ==
    [start_time |-> and_hms_opt(date1, h1, 0, 0) - 2 * 3600,
     end_time |-> and_hms_opt(date2, h2, 0, 0) - 2 * 3600]

\* sessions inside one day: on the Regular Monday 2025-08-04, on the Sunday
\* 2025-08-10 and on the Afternoon Monday 2025-07-28; and one over the
\* midnight between the Regular days 2025-08-05 and 2025-08-06
DaySessions ==
    {SummerSession(215, 8, 215, 14), SummerSession(215, 14, 215, 17),
     SummerSession(215, 5, 215, 17), SummerSession(221, 10, 221, 14),
     SummerSession(208, 10, 208, 14), SummerSession(208, 14, 208, 22),
     SummerSession(216, 23, 217, 1)}

SliceInputs ==
    {[start_time |-> SliceBases[b] + k * 600,
      end_time |-> SliceBases[b] + k * 600 + dur] :
        b \in 1..Len(SliceBases), k \in 0..(NumOffsets - 1), dur \in SliceDurations}
    \cup DaySessions

RECURSIVE SumDaily(_, _)
\* the sum of the values of the returned map over the dates in keys
SumDaily(map, keys) ==
    IF keys = {}
    THEN 0
    ELSE LET k == CHOOSE x \in keys : TRUE
         IN map[k] + SumDaily(map, keys \ {k})

InitSlice ==
    /\ session \in SliceInputs
    /\ o_pc = "start"
    /\ start_local = 0
    /\ end_local = 0
    /\ current_date = 0
    /\ end_date = 0
    /\ daily = EmptyMap
    /\ SessIdle
    /\ SchedIdle
    /\ AttrIdle
    /\ MainIdle
    /\ file = [kind |-> "missing"]
    /\ daily_hours = EmptyMap
    /\ daily_projects = EmptyMap
    /\ today = DateList[1]
    /\ loaded = EmptySummary
    /\ summary = EmptySummary
    /\ updated_count = 0
    /\ save_result = "none"
    /\ lastOp = "none"
    /\ repeat = FALSE
    /\ prev = NoPrev
    /\ tmp_file = [kind |-> "missing"]
    /\ proc = [p \in Procs |-> ProcOff]
    /\ file0 = [kind |-> "missing"]

\* lines 9-18: the conversion to local time and the two dates
slice_begin ==
    /\ o_pc = "start"
    /\ start_local' = naive_local(session.start_time)
    /\ end_local' = naive_local(session.end_time)
    /\ current_date' = date_of(naive_local(session.start_time))
    /\ end_date' = date_of(naive_local(session.end_time))
    /\ daily' = EmptyMap
    /\ o_pc' = "loop"
    /\ UNCHANGED <<session, notSlice>>

\* the variant of day_end that is the next midnight
day_end_next_midnight(date) == and_hms_opt(date + 1, 0, 0, 0)

\* lines 21-22: the first and the last instant of the civil day
day_start(date) == and_hms_opt(date, 0, 0, 0)
day_end(date) == and_hms_opt(date, 23, 59, 59)

\* lines 21-42: the map after the loop body has run for date
SliceDay(map, s_local, e_local, date) ==
    LET block_start == Max(s_local, day_start(date))
        block_end == Min(e_local, day_end(date))
        overtime_seconds ==
            calculate_overtime_for_day(date, time_of(block_start),
                                       time_of(block_end))
    IN IF block_end > block_start /\ overtime_seconds > 0
       THEN Put(map, date,
                (IF date \in DOMAIN map THEN map[date] ELSE 0) + overtime_seconds)
       ELSE map

RECURSIVE SliceFrom(_, _, _, _)
\* the loop of lines 20-45 from date on
SliceFrom(map, s_local, e_local, date) ==
    IF date > date_of(e_local)
    THEN map
    ELSE SliceFrom(SliceDay(map, s_local, e_local, date), s_local, e_local, date + 1)

\* calculate_session_overtime as a function: date -> overtime in seconds
calculate_session_overtime(s) ==
    SliceFrom(EmptyMap, naive_local(s.start_time), naive_local(s.end_time),
              date_of(naive_local(s.start_time)))

\* lines 20-45: one iteration of the loop over the dates
slice_day ==
    /\ o_pc = "loop"
    /\ current_date <= end_date
    /\ daily' = SliceDay(daily, start_local, end_local, current_date)
    /\ current_date' = current_date + 1
    /\ UNCHANGED <<session, o_pc, start_local, end_local, end_date, notSlice>>

\* line 47: the map is returned
slice_end ==
    /\ o_pc = "loop"
    /\ current_date > end_date
    /\ o_pc' = "done"
    /\ UNCHANGED <<session, start_local, end_local, current_date, end_date, daily,
                   notSlice>>

NextSlice ==
    \/ slice_begin
    \/ slice_day
    \/ slice_end

SpecSlice == InitSlice /\ [][NextSlice]_vars

(***************************************************************************)
(* jsonl.rs: the attribution of the overtime of the sessions to dates and  *)
(* projects (load_overtime_from_files, lines 301-345).  The hours of a     *)
(* date are held in seconds; the hours of a project, hours * count /       *)
(* total, are held in SHARE-ths of a second, so that every share is whole. *)
(***************************************************************************)
MaxSessions == 2    \* how many sessions the attribution loop is given

SHARE == 60

RECURSIVE SumCounts(_, _)
\* values().sum() over the names given
SumCounts(counts, names) ==
    IF names = {}
    THEN 0
    ELSE LET n == CHOOSE x \in names : TRUE
         IN counts[n] + SumCounts(counts, names \ {n})

\* lines 305-309: project_counts without the background label
real_projects(s) ==
    [name \in {n \in DOMAIN s.project_counts : n # "transcripts"} |->
        s.project_counts[name]]

\* line 311
total_records(s) == SumCounts(real_projects(s), DOMAIN real_projects(s))

\* the filter test that lets every date through
dominated_never(filter, date) == FALSE

\* line 314: date_filter.map(|f| date != f).unwrap_or(false)
dominated(filter, date) == filter # {} /\ date \notin filter

\* ProjectHours::default()
DefaultHours == [weekday_hours |-> 0, weekend_hours |-> 0]

\* the bucket chosen by the classification of the date
AddToBucket_by_shift_type(entry, date, amount) ==
    IF get_shift_type(date) = "Weekend"
    THEN [entry EXCEPT !.weekend_hours = @ + amount]
    ELSE [entry EXCEPT !.weekday_hours = @ + amount]

\* lines 325-329 and 337-341
AddToBucket(entry, date, amount) ==
    IF is_weekend(date)
    THEN [entry EXCEPT !.weekend_hours = @ + amount]
    ELSE [entry EXCEPT !.weekday_hours = @ + amount]

\* the shares taken over every label, the background label too
Shares_with_background(s, hours) ==
    LET total == SumCounts(s.project_counts, DOMAIN s.project_counts)
    IN [name \in DOMAIN s.project_counts |->
          (hours * SHARE * s.project_counts[name]) \div total]

\* the shares with no "unknown" project for a session of background events
Shares_without_unknown(s, hours) ==
    [name \in DOMAIN real_projects(s) |->
        (hours * SHARE * real_projects(s)[name]) \div total_records(s)]

\* lines 323-343: what each project receives of the hours of one date
Shares(s, hours) ==
    IF total_records(s) = 0
    THEN [name \in {"unknown"} |-> hours * SHARE]
    ELSE [name \in DOMAIN real_projects(s) |->
            (hours * SHARE * real_projects(s)[name]) \div total_records(s)]

\* lines 319-343: the result after one date of one session
AttributeDate(res, s, date, hours) ==
    LET old == IF date \in DOMAIN res.projects THEN res.projects[date] ELSE EmptyMap
        sh == Shares(s, hours)
        day_projects ==
            [name \in (DOMAIN old) \cup (DOMAIN sh) |->
               IF name \in DOMAIN sh
               THEN AddToBucket(IF name \in DOMAIN old THEN old[name]
                                ELSE DefaultHours, date, sh[name])
               ELSE old[name]]
    IN [hours |-> Put(res.hours, date,
                      (IF date \in DOMAIN res.hours THEN res.hours[date] ELSE 0)
                      + hours),
        projects |-> Put(res.projects, date, day_projects)]

RECURSIVE AttributeDates(_, _, _, _)
\* lines 313-344: the loop over the dates of one session
AttributeDates(res, s, overtime, dates) ==
    IF dates = {}
    THEN res
    ELSE LET date == CHOOSE x \in dates : TRUE
         IN AttributeDates(AttributeDate(res, s, date, overtime[date]), s,
                           overtime, dates \ {date})

\* lines 302-344: the body of the loop over the sessions
AttributeSession(res, s, filter) ==
    LET overtime == calculate_session_overtime(s)
        kept == {date \in DOMAIN overtime :
                    ~dominated(filter, date) /\ overtime[date] > 0}
    IN AttributeDates(res, s, overtime, kept)

\* the local intervals of the sessions, in ascending order and more than
\* SESSION_GAP_SECONDS apart:
\*   Friday 2025-08-01 22:00 to Saturday 02:00, in an afternoon period
\*   that Saturday 13:00 to 16:00
\*   Sunday 2025-08-03 10:00 to 11:00
\*   the Regular Monday 2025-08-04 08:00 to 14:00, and 16:00 to 18:00
SlotList ==
    <<SummerSession(212, 22, 213, 2), SummerSession(213, 13, 213, 16),
      SummerSession(214, 10, 214, 11), SummerSession(215, 8, 215, 14),
      SummerSession(215, 16, 215, 18)>>

\* the event counts of a session, by source label
CountMaps ==
    {("transcripts" :> 2),
     ("proj" :> 1) @@ ("transcripts" :> 1),
     ("proj" :> 1) @@ ("other" :> 2),
     ("proj" :> 2) @@ ("other" :> 1) @@ ("transcripts" :> 3)}

SlotSession(k, counts) ==
    [project_counts |-> counts,
     start_time |-> SlotList[k].start_time,
     end_time |-> SlotList[k].end_time,
     duration_seconds |-> SlotList[k].end_time - SlotList[k].start_time]

\* the Vecs build_sessions_from_records can return: ascending and disjoint
SessionInputs ==
    LET picks == UNION {[1..n -> (1..Len(SlotList)) \X CountMaps] :
                          n \in 0..MaxSessions}
        ascending == {q \in picks :
                        \A k \in 1..(Len(q) - 1) : q[k][1] < q[k + 1][1]}
    IN {[k \in 1..Len(q) |-> SlotSession(q[k][1], q[k][2])] : q \in ascending}

\* None (load_recent_overtime, load_all_overtime) or Some(date)
FilterInputs == {{}, {212}, {213}, {215}}

InitAttribution ==
    /\ a_sessions \in SessionInputs
    /\ date_filter \in FilterInputs
    /\ a_idx = 1
    /\ a_pc = "loop"
    /\ result = [hours |-> EmptyMap, projects |-> EmptyMap]
    /\ SessIdle
    /\ SliceIdle
    /\ SchedIdle
    /\ MainIdle
    /\ file = [kind |-> "missing"]
    /\ daily_hours = EmptyMap
    /\ daily_projects = EmptyMap
    /\ today = DateList[1]
    /\ loaded = EmptySummary
    /\ summary = EmptySummary
    /\ updated_count = 0
    /\ save_result = "none"
    /\ lastOp = "none"
    /\ repeat = FALSE
    /\ prev = NoPrev
    /\ tmp_file = [kind |-> "missing"]
    /\ proc = [p \in Procs |-> ProcOff]
    /\ file0 = [kind |-> "missing"]

\* one iteration of the loop over the sessions
attribute_session ==
    /\ a_pc = "loop"
    /\ a_idx <= Len(a_sessions)
    /\ result' = AttributeSession(result, a_sessions[a_idx], date_filter)
    /\ a_idx' = a_idx + 1
    /\ UNCHANGED <<a_sessions, date_filter, a_pc, notAttr>>

\* line 347: the result is returned
attribution_return ==
    /\ a_pc = "loop"
    /\ a_idx > Len(a_sessions)
    /\ a_pc' = "done"
    /\ UNCHANGED <<a_sessions, date_filter, a_idx, result, notAttr>>

NextAttribution ==
    \/ attribute_session
    \/ attribution_return

SpecAttribution == InitAttribution /\ [][NextAttribution]_vars

(***************************************************************************)
(* Properties of the attribution.                                          *)
(***************************************************************************)
\* C17: for each session and each of its dates with positive overtime: when
\* the session has no events from real sources (only "transcripts"), all of
\* the date's hours go to the project "unknown"; otherwise each real source
\* receives hours * (its count / the total real count) and the background
\* label receives nothing.
C17_SharesBySource ==
    [][(a_pc = "loop" /\ a_idx' = a_idx + 1) =>
         LET s == a_sessions[a_idx]
             overtime == calculate_session_overtime(s)
             real == (DOMAIN s.project_counts) \ {"transcripts"}
             total == SumCounts(s.project_counts, real)
             amount(res, d, name) ==
                 IF d \in DOMAIN res.projects /\ name \in DOMAIN res.projects[d]
                 THEN res.projects[d][name].weekday_hours
                      + res.projects[d][name].weekend_hours
                 ELSE 0
             got(d, name) == amount(result', d, name) - amount(result, d, name)
         IN \A d \in DOMAIN overtime :
              (overtime[d] > 0 /\ (date_filter = {} \/ d \in date_filter)) =>
                 /\ got(d, "transcripts") = 0
                 /\ "transcripts" \notin DOMAIN result'.projects[d]
                 /\ IF real = {}
                    THEN /\ got(d, "unknown") = overtime[d] * 60
                         /\ \A name \in {"proj", "other"} : got(d, name) = 0
                    ELSE /\ got(d, "unknown") = 0
                         /\ \A name \in real :
                               got(d, name) * total
                               = overtime[d] * 60 * s.project_counts[name]]_vars

\* a session with background events only and one with two real sources and
\* background events have been attributed
C17_Witness ==
    /\ a_pc = "done"
    /\ Len(a_sessions) = 2
    /\ DOMAIN a_sessions[1].project_counts = {"transcripts"}
    /\ DOMAIN a_sessions[2].project_counts = {"proj", "other", "transcripts"}
    /\ \E d1, d2 \in DOMAIN result.projects :
         /\ DOMAIN result.projects[d1] = {"unknown"}
         /\ DOMAIN result.projects[d2] = {"proj", "other"}
         /\ result.projects[d2]["proj"].weekday_hours
            = 2 * result.projects[d2]["other"].weekday_hours
         /\ result.projects[d2]["proj"].weekday_hours > 0

\* C18: with a date filter the day totals and the project map have no key
\* other than the filter date: the slices of a session on other dates are
\* dropped, not stored with zero hours.
C18_FilterDrops ==
    date_filter # {} =>
      /\ DOMAIN result.hours \subseteq date_filter
      /\ DOMAIN result.projects \subseteq date_filter

\* a session with overtime on Friday and on Saturday was attributed under the
\* filter for the Saturday
C18_Witness ==
    /\ a_pc = "done"
    /\ date_filter = {213}
    /\ Len(a_sessions) >= 1
    /\ DOMAIN calculate_session_overtime(a_sessions[1]) = {212, 213}
    /\ DOMAIN result.hours = {213}
    /\ DOMAIN result.projects = {213}

\* C19: attributed hours go to the weekend bucket iff the date is a Saturday
\* or a Sunday and to the weekday bucket otherwise, whatever the shift
\* classification: hours of a SaturdayAfternoon date go to the weekend
\* bucket, and on one date no project has hours in both buckets.
C19_BucketByWeekday ==
    \A d \in DOMAIN result.projects :
       \A name \in DOMAIN result.projects[d] :
          LET e == result.projects[d][name]
          IN IF (d + 2) % 7 \in {5, 6}
             THEN e.weekend_hours > 0 /\ e.weekday_hours = 0
             ELSE e.weekday_hours > 0 /\ e.weekend_hours = 0

\* hours of the Saturday 2025-08-02, a SaturdayAfternoon date, were attributed
C19_Witness ==
    /\ a_pc = "done"
    /\ get_shift_type(213) = "SaturdayAfternoon"
    /\ 213 \in DOMAIN result.projects
    /\ \E name \in DOMAIN result.projects[213] :
         /\ result.projects[213][name].weekend_hours > 0
         /\ result.projects[213][name].weekday_hours = 0

(***************************************************************************)
(* schedule.rs: the classification of one date and of one instant.         *)
(***************************************************************************)
MaxDays == 45       \* the dates range this many days to each side of the anchor

\* the variant whose window is closed at its end
is_overtime_hour_closed_end(date, time) ==
    IF get_regular_work_window(date) # {}
    THEN LET window == CHOOSE w \in get_regular_work_window(date) : TRUE
         IN time < window.start \/ time > window.end
    ELSE TRUE

\* is_overtime_hour(dt) with date = dt.date_naive() and time = dt.time()
is_overtime_hour(date, time) ==
    IF get_regular_work_window(date) # {}
    THEN LET window == CHOOSE w \in get_regular_work_window(date) : TRUE
         IN time < window.start \/ time >= window.end
    ELSE TRUE

SchedDates == (FIRST_AFTERNOON_START - MaxDays)..(FIRST_AFTERNOON_START + MaxDays)

\* times of day at, one second before and between the ends of the windows
SchedTimes ==
    {from_hms_opt(0, 0, 0), from_hms_opt(5, 59, 59), from_hms_opt(6, 0, 0),
     from_hms_opt(7, 59, 59), from_hms_opt(8, 0, 0), from_hms_opt(13, 59, 59),
     from_hms_opt(14, 0, 0), from_hms_opt(14, 59, 59), from_hms_opt(15, 0, 0),
     from_hms_opt(20, 59, 59), from_hms_opt(21, 0, 0), from_hms_opt(23, 59, 59)}

InitSchedule ==
    /\ sch_date \in SchedDates
    /\ sch_time \in SchedTimes
    /\ sch_pc = "input"
    /\ sch_shift = "none"
    /\ overtime_hour = FALSE
    /\ SessIdle
    /\ SliceIdle
    /\ AttrIdle
    /\ MainIdle
    /\ file = [kind |-> "missing"]
    /\ daily_hours = EmptyMap
    /\ daily_projects = EmptyMap
    /\ today = DateList[1]
    /\ loaded = EmptySummary
    /\ summary = EmptySummary
    /\ updated_count = 0
    /\ save_result = "none"
    /\ lastOp = "none"
    /\ repeat = FALSE
    /\ prev = NoPrev
    /\ tmp_file = [kind |-> "missing"]
    /\ proc = [p \in Procs |-> ProcOff]
    /\ file0 = [kind |-> "missing"]

call_get_shift_type ==
    /\ sch_pc = "input"
    /\ sch_shift' = get_shift_type(sch_date)
    /\ sch_pc' = "classified"
    /\ UNCHANGED <<sch_date, sch_time, overtime_hour, notSched>>

call_is_overtime_hour ==
    /\ sch_pc = "classified"
    /\ overtime_hour' = is_overtime_hour(sch_date, sch_time)
    /\ sch_pc' = "checked"
    /\ UNCHANGED <<sch_date, sch_time, sch_shift, notSched>>

NextSchedule ==
    \/ call_get_shift_type
    \/ call_is_overtime_hour

SpecSchedule == InitSchedule /\ [][NextSchedule]_vars

(***************************************************************************)
(* Properties of the schedule.                                             *)
(***************************************************************************)
\* C11: for every date before the anchor date 2025-07-28 get_shift_type
\* returns Regular or Weekend, never Afternoon or SaturdayAfternoon.
C11_NoAfternoonBeforeAnchor ==
    (sch_pc # "input" /\ sch_date < 208) => sch_shift \in {"Regular", "Weekend"}

\* a date three weeks before the anchor's Saturday has been classified
C11_Witness ==
    /\ sch_pc = "classified"
    /\ sch_date = 213 - 21
    /\ sch_shift = "Weekend"

\* C12: for every date on or after the anchor date, get_shift_type(date)
\* equals get_shift_type(date + 21 days).
C12_Cycle21 ==
    (sch_pc # "input" /\ sch_date >= 208) => sch_shift = get_shift_type(sch_date + 21)

\* the anchor date itself has been classified, as an afternoon day
C12_Witness ==
    /\ sch_pc = "classified"
    /\ sch_date = 208
    /\ sch_shift = "Afternoon"
    /\ get_shift_type(sch_date + 21) = "Afternoon"

\* C13: get_shift_type is SaturdayAfternoon on a Saturday inside an
\* afternoon period, Weekend on any other Saturday and on any Sunday,
\* Afternoon on a Monday to Friday inside an afternoon period and Regular
\* otherwise; inside an afternoon period means date - anchor >= 0 and
\* (date - anchor) mod 21 in 0..5.
C13_ShiftTable ==
    sch_pc # "input" =>
      LET since == sch_date - 208
          inside == since >= 0 /\ (since % 21) \in 0..5
          saturday == (sch_date + 2) % 7 = 5
          sunday == (sch_date + 2) % 7 = 6
      IN sch_shift = (IF saturday /\ inside THEN "SaturdayAfternoon"
                      ELSE IF saturday \/ sunday THEN "Weekend"
                      ELSE IF inside THEN "Afternoon"
                      ELSE "Regular")

\* the Saturday of the second afternoon period has been classified
C13_Witness ==
    /\ sch_pc = "classified"
    /\ sch_date = 213 + 21
    /\ sch_shift = "SaturdayAfternoon"

\* C14: is_overtime_hour is true iff the date is a Weekend date or the time
\* of day lies outside the half-open window of the date's classification:
\* Regular [06:00,15:00), Afternoon [15:00,21:00), SaturdayAfternoon
\* [08:00,14:00); the start of the window is not overtime, its end is.
C14_HalfOpenWindow ==
    sch_pc = "checked" =>
      LET from == CASE sch_shift = "Regular" -> 6 * 3600
                    [] sch_shift = "Afternoon" -> 15 * 3600
                    [] sch_shift = "SaturdayAfternoon" -> 8 * 3600
                    [] OTHER -> 0
          to == CASE sch_shift = "Regular" -> 15 * 3600
                  [] sch_shift = "Afternoon" -> 21 * 3600
                  [] sch_shift = "SaturdayAfternoon" -> 14 * 3600
                  [] OTHER -> 0
      IN overtime_hour <=>
           (sch_shift = "Weekend" \/ ~(from <= sch_time /\ sch_time < to))

\* the end instant of the window of a Saturday of an afternoon period
C14_Witness ==
    /\ sch_pc = "checked"
    /\ sch_shift = "SaturdayAfternoon"
    /\ sch_time = 14 * 3600
    /\ overtime_hour

(***************************************************************************)
(* Properties of the overtime slicing.                                     *)
(***************************************************************************)
\* C7: the overtime that calculate_session_overtime returns, summed over all
\* dates, never exceeds the duration of the session (end instant minus start
\* instant), also when the session crosses midnight or a change of the
\* Warsaw clock.
C7_SlicedWithinDuration ==
    o_pc = "done" =>
      SumDaily(daily, DOMAIN daily) <= session.end_time - session.start_time

\* C15: for one date and a same-day interval with start < end the overtime
\* is the whole length on a Weekend date, and otherwise the length minus the
\* length of the intersection with the date's work window; so a Regular day
\* gives 0 s for 08:00-14:00 and 7200 s for 14:00-17:00, a Weekend day
\* 14400 s for 10:00-14:00 and an Afternoon day 14400 s for 10:00-14:00; a
\* date with zero overtime gets no entry in the result.
C15_DayOvertime ==
    [][(o_pc = "loop" /\ current_date' = current_date + 1) =>
         LET d == current_date
             bs == IF start_local >= d * 86400 THEN start_local ELSE d * 86400
             be == IF end_local <= d * 86400 + 86399
                   THEN end_local ELSE d * 86400 + 86399
             from == bs - d * 86400
             to == be - d * 86400
             shift == get_shift_type(d)
             ws == CASE shift = "Regular" -> 6 * 3600
                     [] shift = "Afternoon" -> 15 * 3600
                     [] shift = "SaturdayAfternoon" -> 8 * 3600
                     [] OTHER -> 0
             we == CASE shift = "Regular" -> 15 * 3600
                     [] shift = "Afternoon" -> 21 * 3600
                     [] shift = "SaturdayAfternoon" -> 14 * 3600
                     [] OTHER -> 0
             lo == IF from >= ws THEN from ELSE ws
             hi == IF to <= we THEN to ELSE we
             inside == IF hi > lo THEN hi - lo ELSE 0
             expected == (to - from) - inside
         IN /\ be > bs =>
                 IF expected > 0
                 THEN /\ DOMAIN daily' = (DOMAIN daily) \cup {d}
                      /\ daily'[d] = expected
                 ELSE daily' = daily /\ d \notin DOMAIN daily'
            /\ (d = 215 /\ from = 8 * 3600 /\ to = 14 * 3600) =>
                 d \notin DOMAIN daily'
            /\ (d = 215 /\ from = 14 * 3600 /\ to = 17 * 3600) =>
                 daily'[d] = 7200
            /\ (d = 221 /\ from = 10 * 3600 /\ to = 14 * 3600) =>
                 daily'[d] = 14400
            /\ (d = 208 /\ from = 10 * 3600 /\ to = 14 * 3600) =>
                 daily'[d] = 14400]_vars

\* the session 14:00-17:00 of the Regular day 2025-08-04 has been sliced
C15_Witness ==
    /\ o_pc = "done"
    /\ start_local = 215 * 86400 + 14 * 3600
    /\ end_local = 215 * 86400 + 17 * 3600
    /\ get_shift_type(215) = "Regular"
    /\ DOMAIN daily = {215}
    /\ daily[215] = 7200

\* C16: a session that is local from 23:00 on day N to 01:00 on day N+1,
\* both Regular days, gives an entry to both dates: day N the part from
\* 23:00:00 to 23:59:59, day N+1 the part from 00:00:00 to 01:00:00; in
\* general each date from the local start date to the local end date is
\* sliced against its civil day [00:00:00, 23:59:59] and its own
\* classification.
C16_MidnightSlices ==
    o_pc = "done" =>
      /\ \A n \in {date_of(start_local)} :
            (/\ start_local = n * 86400 + 23 * 3600
             /\ end_local = (n + 1) * 86400 + 3600
             /\ get_shift_type(n) = "Regular"
             /\ get_shift_type(n + 1) = "Regular") =>
               /\ DOMAIN daily = {n, n + 1}
               /\ daily[n] = 3599
               /\ daily[n + 1] = 3600
      /\ DOMAIN daily \subseteq date_of(start_local)..date_of(end_local)
      /\ \A d \in date_of(start_local)..date_of(end_local) :
            LET bs == IF start_local >= d * 86400 THEN start_local ELSE d * 86400
                be == IF end_local <= d * 86400 + 86399
                      THEN end_local ELSE d * 86400 + 86399
                secs == IF be > bs
                        THEN calculate_overtime_for_day(d, bs - d * 86400,
                                                        be - d * 86400)
                        ELSE 0
            IN IF secs > 0
               THEN d \in DOMAIN daily /\ daily[d] = secs
               ELSE d \notin DOMAIN daily

\* the session from 23:00 on 2025-08-05 to 01:00 on 2025-08-06 has been sliced
C16_Witness ==
    /\ o_pc = "done"
    /\ start_local = 216 * 86400 + 23 * 3600
    /\ end_local = 217 * 86400 + 3600
    /\ get_shift_type(216) = "Regular"
    /\ get_shift_type(217) = "Regular"
    /\ DOMAIN daily = {216, 217}

(***************************************************************************)
(* Properties of the session reconstruction.                               *)
(***************************************************************************)
\* C8: for ascending records the sessions returned are exactly the maximal
\* runs of consecutive records with no gap above 1800 s whose last
\* timestamp is at least 300 s after the first, in order, each with
\* start = first timestamp, end = last timestamp, duration = end - start;
\* a shorter run (a single record too) gives no session and joins no other.
C8_SessionsAreRuns ==
    b_pc = "done" =>
      LET n == Len(all_records)
          ts == [k \in 1..n |-> all_records[k].timestamp]
          breaks == {k \in 1..(n - 1) : ts[k + 1] - ts[k] > 1800}
          firsts == {k \in 1..n : k = 1 \/ (k - 1) \in breaks}
          last == [a \in firsts |->
                     CHOOSE b \in a..n :
                        /\ b = n \/ b \in breaks
                        /\ \A c \in a..(b - 1) : c \notin breaks]
          kept == {a \in firsts : ts[last[a]] - ts[a] >= 300}
      IN /\ Len(sessions) = Cardinality(kept)
         /\ \A a \in kept :
               \E j \in 1..Len(sessions) :
                  /\ sessions[j].start_time = ts[a]
                  /\ sessions[j].end_time = ts[last[a]]
                  /\ sessions[j].duration_seconds = ts[last[a]] - ts[a]
         /\ \A j \in 1..(Len(sessions) - 1) :
               sessions[j].end_time < sessions[j + 1].start_time

\* a session was returned, and a record that lies in no session was dropped
C8_Witness ==
    /\ b_pc = "done"
    /\ Len(sessions) >= 1
    /\ sessions[1].duration_seconds = 300
    /\ \E k \in 1..Len(all_records) :
         \A j \in 1..Len(sessions) :
            \/ all_records[k].timestamp < sessions[j].start_time
            \/ all_records[k].timestamp > sessions[j].end_time

\* C9: the gap test is strict: a record exactly 1800 s after the end of the
\* open session extends it, a record more than 1800 s after it (2400 s, say)
\* closes the open session and starts a new one with that record.
C9_StrictGap ==
    [][(b_pc = "loop" /\ idx <= Len(all_records) /\ idx' = idx + 1) =>
         LET rec == all_records[idx]
             g == rec.timestamp - session_end
         IN /\ g = 1800 =>
                  /\ session_start' = session_start
                  /\ session_end' = rec.timestamp
                  /\ session_projects' = CountUp(session_projects, rec.project)
                  /\ sessions' = sessions
            /\ g > 1800 =>
                  /\ session_start' = rec.timestamp
                  /\ session_end' = rec.timestamp
                  /\ session_projects' = Put(EmptyMap, rec.project, 1)
                  /\ IF session_end - session_start >= 300
                     THEN /\ Len(sessions') = Len(sessions) + 1
                          /\ sessions'[Len(sessions')].start_time = session_start
                          /\ sessions'[Len(sessions')].end_time = session_end
                     ELSE sessions' = sessions]_vars

\* a gap of exactly 1800 s lies inside the first session, and a gap of
\* 2400 s lies between the first session and the second
C9_Witness ==
    /\ b_pc = "done"
    /\ Len(sessions) = 2
    /\ sessions[1].duration_seconds = 1800
    /\ sessions[2].start_time - sessions[1].end_time = 2400
    /\ \E k \in 1..(Len(all_records) - 1) :
         /\ all_records[k].timestamp = sessions[1].start_time
         /\ all_records[k + 1].timestamp = sessions[1].end_time

\* C10: whatever the order in which the same records were collected, sorting
\* by timestamp and reconstructing gives the same sessions: same start, end,
\* duration and per-source counts, in the same order.
C10_OrderInsensitive ==
    b_pc = "done" =>
      \A p \in Permutations(1..Len(all_records)) :
         build_sessions_from_records(
            sort_by_key([k \in 1..Len(all_records) |-> all_records[p[k]]]))
         = [k \in 1..Len(sessions) |-> SessionView(sessions[k])]

\* a session was built from records two of which share a timestamp and
\* differ in their source label
C10_Witness ==
    /\ b_pc = "done"
    /\ Len(sessions) >= 1
    /\ \E a, b \in 1..Len(all_records) :
         /\ a < b
         /\ all_records[a].timestamp = all_records[b].timestamp
         /\ all_records[a].project # all_records[b].project
         /\ all_records[a].timestamp >= sessions[1].start_time
         /\ all_records[a].timestamp <= sessions[1].end_time
         /\ DOMAIN sessions[1].project_counts = Labels

(***************************************************************************)
(* main.rs: one invocation of the program, from the command line to the    *)
(* exit of the process.                                                    *)
(***************************************************************************)

\* a main that never looks at --explain
explain_requested_never(e) == FALSE

\* if let Some(explain_date_str) = &cli.explain
explain_requested(e) == e # {}

\* load_daily_summary_full: the positive day totals and the non-empty
\* project splits of the parsable dates; nothing when the file gives no ledger
load_daily_summary_full(f) ==
    IF f.kind = "doc"
    THEN LET parsable == {k \in DOMAIN f.days : parse_date(k) # {}}
             withHours == {k \in parsable : f.days[k].hours > 0}
             withProjects == {k \in parsable :
                                \E pr \in f.days[k].projects : DOMAIN pr # {}}
             dateOf(k) == CHOOSE date \in parse_date(k) : TRUE
             keyOf(S, date) == CHOOSE k \in S : dateOf(k) = date
         IN [hours |-> [date \in {dateOf(k) : k \in withHours} |->
                          f.days[keyOf(withHours, date)].hours],
             projects |-> [date \in {dateOf(k) : k \in withProjects} |->
                             CHOOSE pr \in f.days[keyOf(withProjects, date)].projects : TRUE]]
    ELSE [hours |-> EmptyMap, projects |-> EmptyMap]

\* the two loops of main over recent_data: a recent value is inserted for
\* today and for a date the map does not hold yet
merge_recent(base, recent, t) ==
    [date \in (DOMAIN base) \cup (DOMAIN recent) |->
        IF date \in DOMAIN recent /\ (date = t \/ date \notin DOMAIN base)
        THEN recent[date]
        ELSE base[date]]

\* how many times one load reads the file: the path must resolve and exist
ledger_reads(f) == IF f.kind \in {"nodir", "missing"} THEN 0 ELSE 1

\* the hours load_recent_overtime recomputes for a date: 0.5 h
RecentHours == HourList[2]

\* what load_recent_overtime can return: totals and splits over the same dates
RecentInputs ==
    {[hours |-> [date \in S |-> RecentHours],
      projects |-> [date \in S |-> SplitOf(date, RecentHours)]] :
        S \in SUBSET Dates}

\* ledgers an earlier run of this program wrote, with project splits
WrittenFiles ==
    {Serialize(MergeSummary(EmptySummary,
                            [date \in S |-> LedgerHours],
                            [date \in S |-> SplitOf(date, LedgerHours)],
                            LaterDate)) :
        S \in (SUBSET Dates) \ {{}}}

\* daily_summary.json as main may find it: also unreadable, or with no data
\* directory to look in
MainFiles ==
    InitFiles \cup WrittenFiles \cup {[kind |-> "unreadable"], [kind |-> "nodir"]}

\* --explain absent, with a date, or with a string that is no date
ExplainInputs == {{}, {format_date(DateList[1])}, {BadKey}}

InitMain ==
    /\ file \in MainFiles
    /\ file0 = file
    /\ daily_hours = EmptyMap
    /\ daily_projects = EmptyMap
    /\ today = DateList[1]
    /\ loaded = EmptySummary
    /\ summary = EmptySummary
    /\ updated_count = 0
    /\ save_result = "none"
    /\ lastOp = "none"
    /\ repeat = FALSE
    /\ prev = NoPrev
    /\ tmp_file = [kind |-> "missing"]
    /\ proc = [p \in Procs |-> ProcOff]
    /\ m_pc = "start"
    /\ explain \in ExplainInputs
    /\ recent_data = [hours |-> EmptyMap, projects |-> EmptyMap]
    /\ n_reads = 0
    /\ n_writes = 0
    /\ exit_status = 0
    /\ reported = [mode |-> "none", hours |-> EmptyMap, projects |-> EmptyMap]
    /\ SessIdle
    /\ SliceIdle
    /\ SchedIdle
    /\ AttrIdle

\* --explain with a date: print_explain, then return
main_explain ==
    /\ m_pc = "start"
    /\ explain_requested(explain)
    /\ \E s \in explain : parse_date(s) # {}
    /\ m_pc' = "exited"
    /\ exit_status' = 0
    /\ reported' = [mode |-> "explain", hours |-> EmptyMap, projects |-> EmptyMap]
    /\ UNCHANGED <<ledgerVars, explain, recent_data, n_reads, n_writes, notMain>>

\* --explain with a string that is no date: the message, then exit(1)
main_explain_error ==
    /\ m_pc = "start"
    /\ explain_requested(explain)
    /\ \E s \in explain : parse_date(s) = {}
    /\ m_pc' = "exited"
    /\ exit_status' = 1
    /\ reported' = [mode |-> "error", hours |-> EmptyMap, projects |-> EmptyMap]
    /\ UNCHANGED <<ledgerVars, explain, recent_data, n_reads, n_writes, notMain>>

\* let summary = jsonl::load_daily_summary_full(..)
main_load ==
    /\ m_pc = "start"
    /\ ~explain_requested(explain)
    /\ daily_hours' = load_daily_summary_full(file).hours
    /\ daily_projects' = load_daily_summary_full(file).projects
    /\ n_reads' = n_reads + ledger_reads(file)
    /\ m_pc' = "loaded"
    /\ UNCHANGED <<file, today, loaded, summary, updated_count, save_result,
                   lastOp, explain, recent_data, n_writes, exit_status, reported,
                   notMain>>

\* today, load_recent_overtime and the two loops over recent_data
main_merge ==
    /\ m_pc = "loaded"
    /\ \E t \in TodayDates, r \in RecentInputs :
         /\ today' = t
         /\ recent_data' = r
         /\ daily_hours' = merge_recent(daily_hours, r.hours, t)
         /\ daily_projects' = merge_recent(daily_projects, r.projects, t)
    /\ m_pc' = "merged"
    /\ UNCHANGED <<file, loaded, summary, updated_count, save_result, lastOp,
                   explain, n_reads, n_writes, exit_status, reported, notMain>>

\* archive::archive_overtime(&daily_hours, &daily_projects, ..): with no data
\* directory save_summary fails before it touches a file
main_archive ==
    /\ m_pc = "merged"
    /\ LET n == Cardinality(MergeDates(load_summary(file).days, daily_hours, today))
       IN /\ \E ok \in IF n = 0 THEN {TRUE}
                       ELSE IF file.kind = "nodir" THEN {FALSE} ELSE BOOLEAN :
                ArchiveRun(daily_hours, daily_projects, today, ok)
          /\ n_writes' = n_writes + (IF n > 0 /\ file.kind # "nodir" THEN 1 ELSE 0)
    /\ n_reads' = n_reads + ledger_reads(file)
    /\ m_pc' = "archived"
    /\ UNCHANGED <<explain, recent_data, exit_status, reported, notMain>>

\* the output of the run: the PDF, the statusline or the full report
main_output ==
    /\ m_pc = "archived"
    /\ \E mode \in {"pdf", "statusline", "report"} :
         \E pdf_ok \in IF mode = "pdf" THEN BOOLEAN ELSE {TRUE} :
           IF pdf_ok
           THEN /\ reported' = [mode |-> mode,
                                hours |-> IF mode = "pdf" THEN EmptyMap ELSE daily_hours,
                                projects |-> IF mode = "statusline" THEN EmptyMap
                                             ELSE daily_projects]
                /\ exit_status' = 0
           ELSE /\ reported' = [mode |-> "error", hours |-> EmptyMap, projects |-> EmptyMap]
                /\ exit_status' = 1
    /\ m_pc' = "exited"
    /\ UNCHANGED <<ledgerVars, explain, recent_data, n_reads, n_writes, notMain>>

NextMain ==
    \/ main_explain
    \/ main_explain_error
    \/ main_load
    \/ main_merge
    \/ main_archive
    \/ main_output

SpecMain == InitMain /\ [][NextMain]_vars

\* C21: loading the ledger never fails the run. When the data directory
\* cannot be resolved, or the file is missing, unreadable or malformed, both
\* loads of the run give empty maps, the run goes on to merge and to print,
\* and it exits with a failure only when the PDF could not be generated.
C21_LoadNeverFails ==
    (file0.kind # "doc" /\ ~explain_requested(explain)) =>
      /\ m_pc = "loaded" => daily_hours = EmptyMap /\ daily_projects = EmptyMap
      /\ m_pc \in {"archived", "exited"} =>
            /\ lastOp = "merge"
            /\ loaded.days = EmptyMap
            /\ loaded.months = EmptyMap
            /\ daily_hours = recent_data.hours
      /\ m_pc = "exited" =>
            \/ exit_status = 0 /\ reported.mode \in {"pdf", "statusline", "report"}
            \/ exit_status = 1 /\ reported.mode = "error" /\ lastOp = "merge"

\* a run that found an unreadable file printed the full report of the
\* recomputed totals and saved them
C21_Witness ==
    /\ m_pc = "exited"
    /\ file0.kind = "unreadable"
    /\ reported.mode = "report"
    /\ reported.hours # EmptyMap
    /\ save_result = "ok"
    /\ file.kind = "doc"

\* C22: when a step of the save fails (creating the directory, serializing,
\* writing the temporary file, renaming it), save_summary returns the error,
\* daily_summary.json keeps the content it had, and the run goes on to print
\* its report from the totals it holds in memory.
C22_SaveFailureKeepsLedger ==
    proc[1].result = "err" =>
      /\ file = file0
      /\ proc[1].pc \in {"done", "exited"}
      /\ proc[1].pc = "exited" =>
            proc[1].out = [mode |-> "report", hours |-> proc[1].dh,
                           projects |-> proc[1].dp]

\* the write of the temporary file failed half way; the ledger on disk is
\* the old document and the report shows the fresh totals
C22_Witness ==
    /\ proc[1].pc = "exited"
    /\ proc[1].result = "err"
    /\ tmp_file.kind = "partial"
    /\ Len(tmp_file.chunks) = 1
    /\ file0.kind = "doc"
    /\ file = file0
    /\ proc[1].out.mode = "report"
    /\ proc[1].out.hours # EmptyMap

\* C23: an explain invocation never writes the ledger: no step of it changes
\* daily_summary.json or starts an archive run, and when the date string
\* does not parse the process ends with a non-zero exit status, having
\* written nothing.
C23_ExplainNeverWrites ==
    explain # {} =>
      /\ file = file0
      /\ n_writes = 0
      /\ lastOp = "none"
      /\ m_pc \in {"start", "exited"}
      /\ (m_pc = "exited" /\ \E s \in explain : parse_date(s) = {}) =>
            exit_status # 0 /\ reported.mode = "error"
      /\ (m_pc = "exited" /\ \E s \in explain : parse_date(s) # {}) =>
            exit_status = 0 /\ reported.mode = "explain"

\* --explain 2025-02-30 ended with exit status 1 and the ledger as it was
C23_Witness ==
    /\ explain = {BadKey}
    /\ m_pc = "exited"
    /\ exit_status = 1
    /\ file0.kind = "doc"
    /\ file = file0

\* C24: within one run without --explain, daily_summary.json is read once,
\* at the start, and written once, at the end: no run reads the file more
\* than once or writes it more than once, the read comes before the totals
\* are combined and the write after them.
C24_ReadOnceWriteOnce ==
    explain = {} =>
      /\ n_reads <= 1
      /\ n_writes <= 1
      /\ m_pc \in {"start", "loaded", "merged"} => n_writes = 0 /\ file = file0
      /\ (m_pc # "start" /\ file0.kind \notin {"nodir", "missing"}) => n_reads >= 1

\* C25: two merge runs at the same time are not coordinated, and an update
\* can be lost. Whenever both runs have ended and the ledger on disk is a
\* complete document without a day entry that a run merged and saved, the
\* document is the other run's, and the other run had loaded the ledger as
\* it was before either run saved; the witness is such a state.
C25_LostUpdateByStaleLoad ==
    \A p, q \in Procs :
       (/\ p # q
        /\ proc[p].pc \in {"done", "exited"}
        /\ proc[q].pc \in {"done", "exited"}
        /\ proc[p].result = "ok"
        /\ file.kind = "doc"
        /\ \E k \in DOMAIN proc[p].summary.days : k \notin DOMAIN file.days)
       => /\ file = Serialize(proc[q].summary)
          /\ proc[q].loaded = load_summary(file0)
          /\ proc[q].result # "none"

\* both runs loaded, merged and saved without an error, and the ledger on
\* disk lacks the day entry that the first run merged
C25_Witness ==
    /\ \A p \in Procs : proc[p].pc = "exited" /\ proc[p].result = "ok"
    /\ file.kind = "doc"
    /\ format_date(RaceDate(1)) \in DOMAIN proc[1].summary.days
    /\ format_date(RaceDate(1)) \notin DOMAIN file.days
    /\ format_date(RaceDate(2)) \in DOMAIN file.days

\* C30: with two runs saving at the same time through the same temporary
\* path, daily_summary.json always holds a complete document, the one it had
\* or the one written by one of the runs, and no save of either run fails.
C30_ConcurrentSavesAtomic ==
    /\ \/ file = file0
       \/ \E p \in Procs :
            /\ proc[p].pc \in {"rename", "done", "exited"}
            /\ file = Serialize(proc[p].summary)
    /\ \A p \in Procs : proc[p].result # "err"

\* C26: the per-source count map of every session returned counts exactly
\* the events of that session: for each source label, the number of records
\* with that label from the session's first event to its last, the first
\* event counted once and nothing carried over from the session before; the
\* counts add up to the number of events of the session.
C26_CountsAreExact ==
    b_pc = "done" =>
      \A j \in 1..Len(sessions) :
         LET inside == {k \in 1..Len(all_records) :
                          /\ all_records[k].timestamp >= sessions[j].start_time
                          /\ all_records[k].timestamp <= sessions[j].end_time}
             of(l) == {k \in inside : all_records[k].project = l}
             counts == sessions[j].project_counts
         IN /\ DOMAIN counts = {all_records[k].project : k \in inside}
            /\ \A l \in DOMAIN counts : counts[l] = Cardinality(of(l))
            /\ SumCounts(counts, DOMAIN counts) = Cardinality(inside)

\* two sessions were returned, the second one with a single event of a
\* source that the first one has two events of
C26_Witness ==
    /\ b_pc = "done"
    /\ Len(sessions) = 2
    /\ \E l \in DOMAIN sessions[1].project_counts :
         /\ sessions[1].project_counts[l] = 2
         /\ l \in DOMAIN sessions[2].project_counts
         /\ sessions[2].project_counts[l] = 1

C28_LedgerWinsSameSource ==
    reported.mode = "report" =>
      LET led == load_daily_summary_full(file0)
          recent == recent_data
      IN \A date \in DOMAIN reported.hours :
            /\ (date # today /\ date \in DOMAIN led.hours) =>
                  reported.hours[date] = led.hours[date]
            /\ (date \notin DOMAIN led.hours \/ reported.hours[date] # led.hours[date]) =>
                  /\ date \in DOMAIN recent.hours
                  /\ reported.hours[date] = recent.hours[date]
                  /\ date = today \/ date \notin DOMAIN led.hours
            /\ date \in DOMAIN reported.projects =>
                  LET hoursFromLedger ==
                         /\ date \in DOMAIN led.hours
                         /\ reported.hours[date] = led.hours[date]
                      splitFromLedger ==
                         /\ date \in DOMAIN led.projects
                         /\ reported.projects[date] = led.projects[date]
                  IN hoursFromLedger <=> splitFromLedger

\* C29: a merge only adds or updates day entries. After archive_overtime
\* every day entry of the loaded ledger is still in the ledger, the entries
\* whose date the fresh totals do not name are unchanged, and a saved file
\* holds them as they were.
C29_MergeKeepsEntries ==
    lastOp = "merge" =>
      LET fresh == {format_date(date) : date \in DOMAIN daily_hours}
      IN /\ DOMAIN loaded.days \subseteq DOMAIN summary.days
         /\ \A k \in (DOMAIN loaded.days) \ fresh :
               /\ summary.days[k] = loaded.days[k]
               /\ save_result = "ok" =>
                     k \in DOMAIN file.days /\ file.days[k] = loaded.days[k]
         /\ save_result = "ok" => DOMAIN loaded.days \subseteq DOMAIN file.days

\* a merge added an entry to a ledger that held an old date and a key that
\* is no date, and saved: both are in the file beside the new entry
C29_Witness ==
    /\ lastOp = "merge"
    /\ save_result = "ok"
    /\ format_date(OldDate) \in DOMAIN loaded.days
    /\ BadKey \in DOMAIN loaded.days
    /\ \E date \in DOMAIN daily_hours :
         /\ format_date(date) \notin DOMAIN loaded.days
         /\ format_date(date) \in DOMAIN file.days
    /\ format_date(OldDate) \in DOMAIN file.days
    /\ BadKey \in DOMAIN file.days

====
